---- MODULE Spec2Model ----
(***************************************************************************)
(* Verification model of composure-rs: the Snowflake codec, the tagged     *)
(* JSON decoders, the InteractionResponse encoder, the Cloudflare webhook  *)
(* pipeline (CloudflareInteractionBot::process), the RoleTags decoder, the *)
(* command builders and the REST client's update_commands.                 *)
(***************************************************************************)
EXTENDS Integers, Sequences, FiniteSets, TLC

VARIABLES
    raw,        \* SpecSnowflake: the u64 handed to Snowflake::from_u64
    sf,         \* SpecSnowflake: the Snowflake struct built from raw
    encoded,    \* SpecSnowflake: the result of Snowflake::to_u64 on sf
    wire,       \* SpecSnowflakeApi: the result of serde_json::to_string(&sf)
    other,      \* SpecSnowflakeApi: a JSON text and the Snowflake decoded from it
    cmp,        \* SpecSnowflakeApi: the results of sf == other and of hashing both
    json,       \* SpecDecode: the serde_json::Value handed to a decoder
    decoded,    \* SpecDecode: the decoder run on json, and its result
    response,   \* SpecEncode: the InteractionResponse handed to serde_json
    text,       \* SpecEncode: the result of serde_json::to_string(&response)
    req,        \* Spec: CloudflareInteractionBot.req, the inbound request
    env,        \* Spec: CloudflareInteractionBot.env, the worker's bindings
    handler,    \* Spec: CloudflareInteractionBot.handler
    pc,         \* Spec: where process() stands
    bytes,      \* Spec: process()'s local bytes
    validation, \* Spec: process()'s local validation
    interaction,            \* Spec: the outcome of serde_json::from_slice
    interaction_response,   \* Spec: process()'s local interaction_response
    result,     \* Spec: what process() returned, or the panic that ended it
    handler_calls,          \* Spec: the handler methods invoked so far
    bots,       \* SpecConcurrent: the bots of the requests in flight
    members,    \* SpecRoleTags: the members of the JSON object, in document order
    role_tags,  \* SpecRoleTags: the result of decoding members as RoleTags
    builder,    \* SpecBuilder: the CommandsBuilder
    command_builder,        \* SpecBuilder: the CommandBuilder inside add_command's closure
    builder_calls,          \* SpecBuilder: the builder methods called so far
    built,      \* SpecBuilder: what CommandsBuilder::build returned
    token,      \* SpecUpdate: whether update_commands' token makes a header value
    commands,   \* SpecUpdate: update_commands' commands
    groups,     \* SpecUpdate: update_commands' local groups, not yet iterated
    requests,   \* SpecUpdate: the PUT requests sent so far
    server,     \* SpecUpdate: the command list Discord holds for each endpoint
    updated_commands,       \* SpecUpdate: update_commands' local updated_commands
    update_result           \* SpecUpdate: what update_commands returned

snowflakeVars == <<raw, sf, encoded, wire, other, cmp>>
decodeVars == <<json, decoded>>
encodeVars == <<response, text>>
botVars ==
    <<req, env, handler, pc, bytes, validation, interaction, interaction_response,
      result, handler_calls>>

roleVars == <<members, role_tags>>
builderVars == <<builder, command_builder, builder_calls, built>>
updateVars == <<token, commands, groups, requests, server, updated_commands, update_result>>
libVars == <<bots, roleVars, builderVars, updateVars>>
coreVars == <<snowflakeVars, decodeVars, encodeVars, botVars>>

vars == <<coreVars, libVars>>

(***************************************************************************)
(* u64 arithmetic.  A u64 is a bit vector, index 1 the least significant   *)
(* bit, so that every operation keeps the width of the Rust type.          *)
(***************************************************************************)
U64_BITS == 64

Bit == {0, 1}

\* The u64 holding a number below 2^31.
U64Of(n) ==
    [i \in 1..U64_BITS |-> IF i <= 31 THEN (n \div 2 ^ (i - 1)) % 2 ELSE 0]

\* The u64 whose four 16-bit limbs are l[1] (lowest) .. l[4] (highest).
U64OfLimbs(l) ==
    [i \in 1..U64_BITS |-> (l[((i - 1) \div 16) + 1] \div 2 ^ ((i - 1) % 16)) % 2]

\* x >> n
Shr(x, n) == [i \in 1..U64_BITS |-> IF i + n <= U64_BITS THEN x[i + n] ELSE 0]

\* x << n; bits shifted past the top are dropped, as for Rust's << with n < 64.
Shl(x, n) == [i \in 1..U64_BITS |-> IF i > n THEN x[i - n] ELSE 0]

BitAnd(x, y) == [i \in 1..U64_BITS |-> x[i] * y[i]]

BitOr(x, y) == [i \in 1..U64_BITS |-> IF x[i] + y[i] > 0 THEN 1 ELSE 0]

\* The k-th 16-bit limb of x, k = 1 the lowest, summed from its four nibbles.
Limb(x, k) ==
    LET lo == 16 * (k - 1) + 1
        Nibble(y, l) == y[l] + 2 * y[l + 1] + 4 * y[l + 2] + 8 * y[l + 3]
    IN  Nibble(x, lo) + 16 * Nibble(x, lo + 4) + 256 * Nibble(x, lo + 8)
        + 4096 * Nibble(x, lo + 12)

\* The limbs of x + y from limb k up, given the carry into limb k, and after
\* them the carry out of the addition.
RECURSIVE AddLimbs(_, _, _, _)
AddLimbs(x, y, k, carry) ==
    IF k > 4 THEN <<carry>>
    ELSE LET s == Limb(x, k) + Limb(y, k) + carry
         IN  <<s % 65536>> \o AddLimbs(x, y, k + 1, s \div 65536)

\* x + y modulo 2^64.
WrappingAdd(x, y) == U64OfLimbs(AddLimbs(x, y, 1, 0))

AddOverflows(x, y) == AddLimbs(x, y, 1, 0)[5] > 0

\* The limbs of x - y from limb k up, given the borrow from limb k, and after
\* them the borrow out of the subtraction.
RECURSIVE SubLimbs(_, _, _, _)
SubLimbs(x, y, k, borrow) ==
    IF k > 4 THEN <<borrow>>
    ELSE LET d == Limb(x, k) - Limb(y, k) - borrow
         IN  <<(d + 65536) % 65536>> \o SubLimbs(x, y, k + 1, IF d < 0 THEN 1 ELSE 0)

\* x - y modulo 2^64.
WrappingSub(x, y) == U64OfLimbs(SubLimbs(x, y, 1, 0))

SubUnderflows(x, y) == SubLimbs(x, y, 1, 0)[5] > 0

\* The number held by the low w bits of x (w <= 16): an as u8/as u16 cast.
LowBits(x, w) == Limb(x, 1) % 2 ^ w

(***************************************************************************)
(* Snowflake (models/src/common/snowflake.rs)                              *)
(***************************************************************************)
\* 1420070400000 = 330 * 2^32 + 41674 * 2^16 + 45056
DISCORD_EPOCH == U64OfLimbs(<<45056, 41674, 330, 0>>)

WORKER_BITS == 4063232
PROCESS_ID_BITS == 126976
INCREMENT_BITS == 4095

TIMESTAMP_SHIFT == 22
WORKER_SHIFT == 17
PROCESS_ID_SHIFT == 12

\* from_u64 with the worker bits masked and cast without the shift.
from_u64_unshifted_worker(snowflake) ==
    [ timestamp |-> WrappingAdd(Shr(snowflake, TIMESTAMP_SHIFT), DISCORD_EPOCH),
      worker_id |-> LowBits(BitAnd(snowflake, U64Of(WORKER_BITS)), 8),
      internal_process_id |->
          LowBits(Shr(BitAnd(snowflake, U64Of(PROCESS_ID_BITS)), PROCESS_ID_SHIFT), 8),
      increment |-> LowBits(BitAnd(snowflake, U64Of(INCREMENT_BITS)), 16) ]

\* Snowflake::from_u64
from_u64(snowflake) ==
    [ timestamp |-> WrappingAdd(Shr(snowflake, TIMESTAMP_SHIFT), DISCORD_EPOCH),
      worker_id |-> LowBits(Shr(BitAnd(snowflake, U64Of(WORKER_BITS)), WORKER_SHIFT), 8),
      internal_process_id |->
          LowBits(Shr(BitAnd(snowflake, U64Of(PROCESS_ID_BITS)), PROCESS_ID_SHIFT), 8),
      increment |-> LowBits(BitAnd(snowflake, U64Of(INCREMENT_BITS)), 16) ]

\* to_u64 with the subtraction and the shift associated the wrong way round:
\* timestamp - (DISCORD_EPOCH << TIMESTAMP_SHIFT).
to_u64_shift_first(s) ==
    BitOr(BitOr(BitOr(
        WrappingSub(s.timestamp, Shl(DISCORD_EPOCH, TIMESTAMP_SHIFT)),
        Shl(U64Of(s.worker_id), WORKER_SHIFT)),
        Shl(U64Of(s.internal_process_id), PROCESS_ID_SHIFT)),
        U64Of(s.increment))

\* Snowflake::to_u64.  In Rust - binds tighter than <<, so the first term is
\* (timestamp - DISCORD_EPOCH) << TIMESTAMP_SHIFT.
to_u64(s) ==
    BitOr(BitOr(BitOr(
        Shl(WrappingSub(s.timestamp, DISCORD_EPOCH), TIMESTAMP_SHIFT),
        Shl(U64Of(s.worker_id), WORKER_SHIFT)),
        Shl(U64Of(s.internal_process_id), PROCESS_ID_SHIFT)),
        U64Of(s.increment))

\* timestamp - DISCORD_EPOCH underflows: a panic with overflow checks on, a
\* wrapped value without.
to_u64_underflows(s) == SubUnderflows(s.timestamp, DISCORD_EPOCH)

None == [some |-> FALSE]
Some(v) == [some |-> TRUE, v |-> v]

(***************************************************************************)
(* Results.  Ok/Err are Rust's Result; Panic is an unwinding panic, which  *)
(* no ? or map_err catches.                                              *)
(***************************************************************************)
Ok(v) == [ok |-> TRUE, panic |-> FALSE, v |-> v]
Err(e) == [ok |-> FALSE, panic |-> FALSE, err |-> e]
Panic(m) == [ok |-> FALSE, panic |-> TRUE, err |-> m]

\* r.map_err(|e| serde::de::Error::custom(e)): the error is kept as its message.
MapErrCustom(r) == r

\* r.map_err(|_| e)
MapErr(r, e) == IF r.ok \/ r.panic THEN r ELSE Err(e)

\* The ? operator: the failure of r, or the continuation K on its value.
AndThen(r, K(_)) == IF r.ok THEN K(r.v) ELSE r

(***************************************************************************)
(* u64::from_str (core::num): an optional leading '+', then decimal digits *)
(* accumulated with checked_mul(10) and checked_add(digit).                *)
(***************************************************************************)
Digits == <<"0", "1", "2", "3", "4", "5", "6", "7", "8", "9">>

\* The sum held by the limbs s and their carry out, or PosOverflow.
Checked(s) == IF s[5] > 0 THEN Err("PosOverflow") ELSE Ok(U64OfLimbs(s))

\* checked_add
CheckedAdd(x, y) == Checked(AddLimbs(x, y, 1, 0))

\* checked_mul(10): x * 10 as (x << 3) + (x << 1); PosOverflow when it does
\* not fit.
CheckedMul10(x) ==
    IF x[U64_BITS] + x[U64_BITS - 1] + x[U64_BITS - 2] > 0 THEN Err("PosOverflow")
    ELSE CheckedAdd(Shl(x, 3), Shl(x, 1))

RECURSIVE ParseDigits(_, _)
ParseDigits(s, acc) ==
    IF s = <<>> THEN Ok(acc)
    ELSE IF ~(\E i \in 1..10 : Digits[i] = Head(s)) THEN Err("InvalidDigit")
    ELSE AndThen(CheckedMul10(acc), LAMBDA m :
            AndThen(CheckedAdd(m, U64Of((CHOOSE i \in 1..10 : Digits[i] = Head(s)) - 1)),
                    LAMBDA a : ParseDigits(Tail(s), a)))

u64_from_str(s) ==
    IF s = <<>> THEN Err("Empty")
    ELSE IF Head(s) = "+"
         THEN IF Tail(s) = <<>> THEN Err("InvalidDigit") ELSE ParseDigits(Tail(s), U64Of(0))
         ELSE ParseDigits(s, U64Of(0))

\* impl FromStr for Snowflake: Ok(Self::from_u64(s.parse()?))
from_str(s) == AndThen(u64_from_str(s), LAMBDA n : Ok(from_u64(n)))

\* impl Default for Snowflake
Default ==
    [ timestamp |-> DISCORD_EPOCH, worker_id |-> 0, internal_process_id |-> 0,
      increment |-> 0 ]

\* impl PartialEq for Snowflake: the four fields, one by one.
eq(self, o) ==
    /\ self.timestamp = o.timestamp
    /\ self.worker_id = o.worker_id
    /\ self.internal_process_id = o.internal_process_id
    /\ self.increment = o.increment

\* self.to_u64() as a build runs it: with overflow checks the subtraction
\* panics when timestamp < DISCORD_EPOCH, without them it wraps.
to_u64_built(s, checks) ==
    IF to_u64_underflows(s) /\ checks THEN Panic("attempt to subtract with overflow")
    ELSE Ok(to_u64(s))

\* impl Hash for Snowflake: what the hasher is fed, the value of to_u64.
hash(s, checks) == AndThen(to_u64_built(s, checks), LAMBDA n : Ok(<<n>>))

\* x divided by 10, limb by limb from limb k down with rem carried in: the
\* remainder first, then the limbs of the quotient, lowest first.
RECURSIVE DivLimbs(_, _, _)
DivLimbs(x, k, rem) ==
    IF k < 1 THEN <<rem>>
    ELSE LET cur == rem * 65536 + Limb(x, k)
         IN  DivLimbs(x, k - 1, cur % 10) \o <<cur \div 10>>

\* impl Display for u64: the decimal digits, most significant first, no
\* leading zero except for 0 itself.
RECURSIVE u64_to_string(_)
u64_to_string(x) ==
    LET DigitsAfter(d) ==
            (IF d[2] + d[3] + d[4] + d[5] = 0 THEN <<>>
             ELSE u64_to_string(U64OfLimbs(SubSeq(d, 2, 5))))
            \o <<Digits[d[1] + 1]>>
    IN  DigitsAfter(DivLimbs(x, 4, 0))

\* impl ToString for Snowflake
Snowflake_to_string(s, checks) ==
    AndThen(to_u64_built(s, checks), LAMBDA n : Ok(u64_to_string(n)))

(***************************************************************************)
(* serde_json::Value.  Strings are sequences of characters; an object is a *)
(* function from key to Value.  A Number is PosInt, NegInt or Float, as in *)
(* serde_json.  "dto" stands for a JSON value handed to one of the plain   *)
(* derived field-list structs (Member, Channel, User, ...): conforms     *)
(* says whether that struct's derived decoder accepts it.                  *)
(***************************************************************************)
JNull == [j |-> "null"]
JBool(b) == [j |-> "bool", b |-> b]
JPosInt(n) == [j |-> "posint", n |-> n]
JNegInt(n) == [j |-> "negint", n |-> n]
JFloat(f) == [j |-> "float", f |-> f]
JString(s) == [j |-> "string", s |-> s]
JArray(a) == [j |-> "array", a |-> a]
JObject(o) == [j |-> "object", o |-> o]
JDto(c) == [j |-> "dto", conforms |-> c]

\* Value::get(key): Some(member) of an object that has the key, else None.
ValueGet(value, key) ==
    IF value.j = "object" /\ key \in DOMAIN value.o THEN Some(value.o[key]) ELSE None

\* Value::as_u64: Some(n) for a PosInt only.
as_u64(value) == IF value.j = "posint" THEN Some(value.n) ELSE None

\* A lookup that yields None where as_u64 must not: every Number is taken.
type_of_any_number(value) ==
    LET f == ValueGet(value, "type")
    IN  IF f.some /\ f.v.j \in {"posint", "negint"} THEN Some(f.v.n) ELSE None

\* value.get("type").and_then(Value::as_u64)
type_of(value) ==
    LET f == ValueGet(value, "type")
    IN  IF f.some THEN as_u64(f.v) ELSE None

MissingType == Err("missing field type")

(***************************************************************************)
(* Field decoders of the derived structs.  Each yields Ok(v) or Err(msg).  *)
(***************************************************************************)
\* impl Deserialize for Snowflake: deserialize_str, visit_str -> from_str.
DeserializeSnowflake(v) ==
    IF v.j /= "string" THEN Err("invalid type: expected SnowflakeVisitor")
    ELSE MapErr(from_str(v.s), "invalid value: expected SnowflakeVisitor")

DeserializeString(v) ==
    IF v.j = "string" THEN Ok(v.s) ELSE Err("invalid type: expected a string")

DeserializeBool(v) ==
    IF v.j = "bool" THEN Ok(v.b) ELSE Err("invalid type: expected a boolean")

DeserializeU8(v) ==
    IF v.j = "posint" /\ v.n <= 255 THEN Ok(v.n)
    ELSE Err("invalid value: expected u8")

\* i64: every sampled integer is within range.
DeserializeI64(v) ==
    IF v.j = "posint" THEN Ok([neg |-> FALSE, n |-> v.n])
    ELSE IF v.j = "negint" THEN Ok([neg |-> TRUE, n |-> v.n])
    ELSE Err("invalid type: expected i64")

\* f64 takes any JSON number.
DeserializeF64(v) ==
    IF v.j \in {"posint", "negint", "float"} THEN Ok(v)
    ELSE Err("invalid type: expected f64")

\* A plain derived struct (Member, Channel, User, Permissions, ...).
DeserializeDto(v) ==
    IF v.j = "dto" /\ v.conforms THEN Ok(v) ELSE Err("invalid type: expected struct")

\* impl Deserialize for TypeField<T>: a u8 equal to T.
DeserializeTypeField(v, T) ==
    IF ~DeserializeU8(v).ok THEN DeserializeU8(v)
    ELSE IF v.n = T THEN Ok(T)
    ELSE Err("not an option type")

\* A field of the struct being decoded from object o is present.
Has(o, k) == k \in DOMAIN o

MissingField(k) == Err(<<"missing field", k>>)

\* A required field of type T decoded by D: the result of D, or missing field.
Req(o, k, D(_)) == IF Has(o, k) THEN D(o[k]) ELSE MissingField(k)

\* An Option<T> field: None when absent or null, else Some(D(value)).
Opt(o, k, D(_)) ==
    IF ~Has(o, k) \/ o[k].j = "null" THEN Ok(None)
    ELSE AndThen(D(o[k]), LAMBDA x : Ok(Some(x)))

\* The first failure among the field results rs (a sequence), or Ok.
RECURSIVE FirstFailure(_)
FirstFailure(rs) ==
    IF rs = <<>> THEN Ok(TRUE)
    ELSE IF ~Head(rs).ok THEN [ok |-> FALSE, panic |-> Head(rs).panic, err |-> Head(rs).err]
    ELSE FirstFailure(Tail(rs))

\* A derived struct: its fields are decoded in declaration order, the first
\* failure ends the decode, and Build makes the value from the field results.
Struct(rs, Build(_)) ==
    LET f == FirstFailure(rs) IN IF f.ok THEN Ok(Build(rs)) ELSE f

\* A derived struct is never decoded from a string, number, bool or null.
NotAStruct == Err("invalid type: expected struct")

\* Ok(Variant(inner)) of a dispatch arm, or the inner decoder's failure.
Tag(variant, r) == IF r.ok THEN Ok([variant |-> variant, inner |-> r.v]) ELSE r

\* Vec<T>: an array whose every element D accepts; the first failure otherwise.
DeserializeVec(v, D(_)) ==
    IF v.j /= "array" THEN Err("invalid type: expected a sequence")
    ELSE Struct([i \in 1..Len(v.a) |-> D(v.a[i])],
                LAMBDA rs : [i \in 1..Len(v.a) |-> rs[i].v])

\* A #[repr(u8)] enum decoded by serde_repr: one of the listed discriminants.
DeserializeRepr(v, discriminants) ==
    IF v.j = "posint" /\ v.n \in discriminants THEN Ok(v.n)
    ELSE Err("invalid value: unknown discriminant")

(***************************************************************************)
(* Message components (src/models/common/component.rs)                     *)
(***************************************************************************)
DeserializeButtonStyle(v) == DeserializeRepr(v, 1..5)
DeserializeTextInputStyle(v) == DeserializeRepr(v, 1..2)

\* #[derive(Deserialize)] struct ButtonComponent
DeserializeButtonComponent(value) ==
    IF value.j /= "object" THEN NotAStruct
    ELSE LET o == value.o
         IN  Struct(<< Req(o, "type", LAMBDA v : DeserializeTypeField(v, 2)),
                       Req(o, "style", DeserializeButtonStyle),
                       Opt(o, "label", DeserializeString),
                       Opt(o, "emoji", DeserializeDto),
                       Opt(o, "custom_id", DeserializeString),
                       Opt(o, "url", DeserializeString),
                       Opt(o, "disabled", DeserializeBool) >>,
                    LAMBDA rs : [t |-> rs[1].v, style |-> rs[2].v])

\* #[derive(Deserialize)] struct SelectMenu<T>
DeserializeSelectMenu(value, T) ==
    IF value.j /= "object" THEN NotAStruct
    ELSE LET o == value.o
         IN  Struct(<< Req(o, "type", LAMBDA v : DeserializeTypeField(v, T)),
                       Req(o, "custom_id", DeserializeString),
                       Opt(o, "options", DeserializeDto),
                       Opt(o, "channel_types", DeserializeDto),
                       Opt(o, "placeholder", DeserializeString),
                       Opt(o, "min_values", DeserializeI64),
                       Opt(o, "max_values", DeserializeI64),
                       Opt(o, "disabled", DeserializeBool) >>,
                    LAMBDA rs : [t |-> rs[1].v, custom_id |-> rs[2].v])

\* #[derive(Deserialize)] struct TextInput
DeserializeTextInput(value) ==
    IF value.j /= "object" THEN NotAStruct
    ELSE LET o == value.o
         IN  Struct(<< Req(o, "type", LAMBDA v : DeserializeTypeField(v, 4)),
                       Req(o, "custom_id", DeserializeString),
                       Req(o, "style", DeserializeTextInputStyle),
                       Req(o, "label", DeserializeString),
                       Opt(o, "min_length", DeserializeI64),
                       Opt(o, "max_length", DeserializeI64),
                       Opt(o, "required", DeserializeBool),
                       Opt(o, "value", DeserializeString),
                       Opt(o, "placeholder", DeserializeString) >>,
                    LAMBDA rs : [t |-> rs[1].v, custom_id |-> rs[2].v])

\* impl Deserialize for Component
DeserializeComponent(value) ==
    LET t == type_of(value)
    IN  IF ~t.some THEN MissingType
        ELSE CASE t.v = 1 -> Err("Should not deserialize ActionRow as a component")
               [] t.v = 2 -> Tag("Button", MapErrCustom(DeserializeButtonComponent(value)))
               [] t.v = 3 -> Tag("StringSelect", MapErrCustom(DeserializeSelectMenu(value, 3)))
               [] t.v = 4 -> Tag("TextInput", MapErrCustom(DeserializeTextInput(value)))
               [] t.v = 5 -> Tag("UserSelect", MapErrCustom(DeserializeSelectMenu(value, 5)))
               [] t.v = 6 -> Tag("RoleSelect", MapErrCustom(DeserializeSelectMenu(value, 6)))
               [] t.v = 7 -> Tag("MentionableSelect", MapErrCustom(DeserializeSelectMenu(value, 7)))
               [] t.v = 8 -> Tag("ChannelSelect", MapErrCustom(DeserializeSelectMenu(value, 8)))
               [] OTHER -> Err("Unknown component")

DeserializeComponentVec(v) == DeserializeVec(v, DeserializeComponent)

\* #[derive(Deserialize)] struct ActionRow
DeserializeActionRow(value) ==
    IF value.j /= "object" THEN NotAStruct
    ELSE LET o == value.o
         IN  Struct(<< Req(o, "type", LAMBDA v : DeserializeTypeField(v, 1)),
                       Req(o, "components", DeserializeComponentVec) >>,
                    LAMBDA rs : [t |-> rs[1].v, components |-> rs[2].v])

DeserializeActionRowVec(v) == DeserializeVec(v, DeserializeActionRow)

(***************************************************************************)
(* Interaction data options (src/models/deserialize/interaction.rs)        *)
(***************************************************************************)
RECURSIVE DeserializeDataOption(_)
RECURSIVE DeserializeDataOptionVec(_)
RECURSIVE DeserializeSubcommand(_)
RECURSIVE DeserializeSubcommandGroup(_)

\* #[derive(Deserialize)] struct ValueOption<T>, T decoded by D.
DeserializeValueOption(value, D(_)) ==
    IF value.j /= "object" THEN NotAStruct
    ELSE LET o == value.o
         IN  Struct(<< Req(o, "name", DeserializeString),
                       Req(o, "value", D),
                       Opt(o, "focused", DeserializeBool) >>,
                    LAMBDA rs : [name |-> rs[1].v, value |-> o["value"]])

\* impl Deserialize for OptionList, and Vec<ApplicationCommandInteractionDataOption>
DeserializeDataOptionVec(v) == DeserializeVec(v, DeserializeDataOption)

\* #[derive(Deserialize)] struct Subcommand: name, options (required), focused.
DeserializeSubcommand(value) ==
    IF value.j /= "object" THEN NotAStruct
    ELSE LET o == value.o
         IN  Struct(<< Req(o, "name", DeserializeString),
                       Req(o, "options", DeserializeDataOptionVec),
                       Opt(o, "focused", DeserializeBool) >>,
                    LAMBDA rs : [name |-> rs[1].v, options |-> rs[2].v])

\* impl Deserialize for SubcommandGroup: InnerData::deserialize(..)?, then
\* options.remove(0), which panics on an empty vector, then the match on the
\* removed option.
DeserializeSubcommandGroup(value) ==
    IF value.j /= "object" THEN NotAStruct
    ELSE LET o == value.o
             InnerData ==
                Struct(<< Req(o, "name", DeserializeString),
                          Req(o, "options", DeserializeDataOptionVec),
                          Opt(o, "focused", DeserializeBool) >>,
                       LAMBDA rs : [name |-> rs[1].v, options |-> rs[2].v])
         IN  AndThen(InnerData, LAMBDA inner :
                IF Len(inner.options) = 0
                THEN Panic("removal index (is 0) should be < len (is 0)")
                ELSE IF inner.options[1].variant = "Subcommand"
                     THEN Ok([name |-> inner.name, subcommand |-> inner.options[1].inner])
                     ELSE Err("Not a subcommand"))

\* A data-option decoder that reads any JSON integer as the tag.
DeserializeDataOption_any_number(value) ==
    LET t == type_of_any_number(value)
    IN  IF ~t.some THEN MissingType
        ELSE CASE t.v = 1 -> Tag("Subcommand", MapErrCustom(DeserializeSubcommand(value)))
               [] t.v = 2 -> Tag("SubcommandGroup", MapErrCustom(DeserializeSubcommandGroup(value)))
               [] t.v = 3 -> Tag("String", MapErrCustom(DeserializeValueOption(value, DeserializeString)))
               [] t.v = 4 -> Tag("Integer", MapErrCustom(DeserializeValueOption(value, DeserializeI64)))
               [] t.v = 5 -> Tag("Boolean", MapErrCustom(DeserializeValueOption(value, DeserializeBool)))
               [] t.v = 6 -> Tag("User", MapErrCustom(DeserializeValueOption(value, DeserializeSnowflake)))
               [] t.v = 7 -> Tag("Channel", MapErrCustom(DeserializeValueOption(value, DeserializeSnowflake)))
               [] t.v = 8 -> Tag("Role", MapErrCustom(DeserializeValueOption(value, DeserializeSnowflake)))
               [] t.v = 9 -> Tag("Mentionable", MapErrCustom(DeserializeValueOption(value, DeserializeSnowflake)))
               [] t.v = 10 -> Tag("Number", MapErrCustom(DeserializeValueOption(value, DeserializeF64)))
               [] t.v = 11 -> Ok([variant |-> "Attachment"])
               [] OTHER -> Err("Unknown option")

\* impl Deserialize for ApplicationCommandInteractionDataOption
DeserializeDataOption(value) ==
    LET t == type_of(value)
    IN  IF ~t.some THEN MissingType
        ELSE CASE t.v = 1 -> Tag("Subcommand", MapErrCustom(DeserializeSubcommand(value)))
               [] t.v = 2 -> Tag("SubcommandGroup", MapErrCustom(DeserializeSubcommandGroup(value)))
               [] t.v = 3 -> Tag("String", MapErrCustom(DeserializeValueOption(value, DeserializeString)))
               [] t.v = 4 -> Tag("Integer", MapErrCustom(DeserializeValueOption(value, DeserializeI64)))
               [] t.v = 5 -> Tag("Boolean", MapErrCustom(DeserializeValueOption(value, DeserializeBool)))
               [] t.v = 6 -> Tag("User", MapErrCustom(DeserializeValueOption(value, DeserializeSnowflake)))
               [] t.v = 7 -> Tag("Channel", MapErrCustom(DeserializeValueOption(value, DeserializeSnowflake)))
               [] t.v = 8 -> Tag("Role", MapErrCustom(DeserializeValueOption(value, DeserializeSnowflake)))
               [] t.v = 9 -> Tag("Mentionable", MapErrCustom(DeserializeValueOption(value, DeserializeSnowflake)))
               [] t.v = 10 -> Tag("Number", MapErrCustom(DeserializeValueOption(value, DeserializeF64)))
               [] t.v = 11 -> Ok([variant |-> "Attachment"])
               [] OTHER -> Err("Unknown option")

(***************************************************************************)
(* Interaction (src/models/deserialize/interaction.rs)                     *)
(***************************************************************************)
DeserializeApplicationCommandType(v) == DeserializeRepr(v, 1..3)
DeserializeMessageComponentType(v) == DeserializeRepr(v, 1..8)

\* #[derive(Deserialize)] struct InteractionCommon, flattened into its holders.
DeserializeInteractionCommon(o) ==
    Struct(<< Req(o, "id", DeserializeSnowflake),
              Req(o, "application_id", DeserializeSnowflake),
              Opt(o, "guild_id", DeserializeSnowflake),
              Opt(o, "channel", DeserializeDto),
              Opt(o, "channel_id", DeserializeSnowflake),
              Opt(o, "member", DeserializeDto),
              Opt(o, "user", DeserializeDto),
              Req(o, "token", DeserializeString),
              Req(o, "version", DeserializeU8),
              Opt(o, "app_permissions", DeserializeDto),
              Opt(o, "guild_locale", DeserializeString) >>,
           LAMBDA rs : [id |-> rs[1].v, application_id |-> rs[2].v,
                        token |-> rs[8].v, version |-> rs[9].v])

\* #[derive(Deserialize)] struct PingInteraction
DeserializePingInteraction(value) ==
    IF value.j /= "object" THEN NotAStruct
    ELSE Struct(<< DeserializeInteractionCommon(value.o) >>,
                LAMBDA rs : [common |-> rs[1].v])

\* #[derive(Deserialize)] struct DataInteraction<D>, D decoded by DecodeData.
DeserializeDataInteraction(value, DecodeData(_)) ==
    IF value.j /= "object" THEN NotAStruct
    ELSE LET o == value.o
         IN  Struct(<< DeserializeInteractionCommon(o),
                       Opt(o, "locale", DeserializeString),
                       Req(o, "data", DecodeData) >>,
                    LAMBDA rs : [common |-> rs[1].v, data |-> rs[3].v])

\* #[derive(Deserialize)] struct ApplicationCommandInteractionData
DeserializeApplicationCommandInteractionData(value) ==
    IF value.j /= "object" THEN NotAStruct
    ELSE LET o == value.o
         IN  Struct(<< Req(o, "id", DeserializeSnowflake),
                       Req(o, "name", DeserializeString),
                       Req(o, "type", DeserializeApplicationCommandType),
                       Opt(o, "resolved", DeserializeDto),
                       Opt(o, "options", DeserializeDataOptionVec),
                       Opt(o, "guild_id", DeserializeSnowflake),
                       Opt(o, "target_id", DeserializeSnowflake) >>,
                    LAMBDA rs : [kind |-> "ApplicationCommandInteractionData",
                                 name |-> rs[2].v, options |-> rs[5].v])

\* #[derive(Deserialize)] struct MessageComponentData
DeserializeMessageComponentData(value) ==
    IF value.j /= "object" THEN NotAStruct
    ELSE LET o == value.o
         IN  Struct(<< Req(o, "custom_id", DeserializeString),
                       Req(o, "component_type", DeserializeMessageComponentType),
                       Opt(o, "values", DeserializeDto) >>,
                    LAMBDA rs : [kind |-> "MessageComponentData", custom_id |-> rs[1].v])

\* #[derive(Deserialize)] struct ModalSubmitData
DeserializeModalSubmitData(value) ==
    IF value.j /= "object" THEN NotAStruct
    ELSE LET o == value.o
         IN  Struct(<< Req(o, "custom_id", DeserializeString),
                       Req(o, "components", DeserializeActionRowVec) >>,
                    LAMBDA rs : [kind |-> "ModalSubmitData", custom_id |-> rs[1].v])

\* An Interaction decoder with the arms of 3 and 4 exchanged.
DeserializeInteraction_swapped(value) ==
    LET t == type_of(value)
    IN  IF ~t.some THEN MissingType
        ELSE CASE t.v = 1 -> Tag("Ping", MapErrCustom(DeserializePingInteraction(value)))
               [] t.v = 2 ->
                    Tag("ApplicationCommand", MapErrCustom(
                        DeserializeDataInteraction(value, DeserializeApplicationCommandInteractionData)))
               [] t.v = 4 ->
                    Tag("MessageComponent", MapErrCustom(
                        DeserializeDataInteraction(value, DeserializeMessageComponentData)))
               [] t.v = 3 ->
                    Tag("ApplicationCommandAutocomplete", MapErrCustom(
                        DeserializeDataInteraction(value, DeserializeApplicationCommandInteractionData)))
               [] t.v = 5 ->
                    Tag("ModalSubmit", MapErrCustom(
                        DeserializeDataInteraction(value, DeserializeModalSubmitData)))
               [] OTHER -> Err("Unknown interaction")

\* impl Deserialize for Interaction
DeserializeInteraction(value) ==
    LET t == type_of(value)
    IN  IF ~t.some THEN MissingType
        ELSE CASE t.v = 1 -> Tag("Ping", MapErrCustom(DeserializePingInteraction(value)))
               [] t.v = 2 ->
                    Tag("ApplicationCommand", MapErrCustom(
                        DeserializeDataInteraction(value, DeserializeApplicationCommandInteractionData)))
               [] t.v = 3 ->
                    Tag("MessageComponent", MapErrCustom(
                        DeserializeDataInteraction(value, DeserializeMessageComponentData)))
               [] t.v = 4 ->
                    Tag("ApplicationCommandAutocomplete", MapErrCustom(
                        DeserializeDataInteraction(value, DeserializeApplicationCommandInteractionData)))
               [] t.v = 5 ->
                    Tag("ModalSubmit", MapErrCustom(
                        DeserializeDataInteraction(value, DeserializeModalSubmitData)))
               [] OTHER -> Err("Unknown interaction")

(***************************************************************************)
(* Application commands (commands/src/command/{model,implementation}.rs)   *)
(***************************************************************************)
\* The fields shared by every option struct: type (TypeField<T>), name,
\* name_localizations, description, description_localizations.
OptionBaseFields(o, T) ==
    << Req(o, "type", LAMBDA v : DeserializeTypeField(v, T)),
       Req(o, "name", DeserializeString),
       Opt(o, "name_localizations", DeserializeDto),
       Req(o, "description", DeserializeString),
       Opt(o, "description_localizations", DeserializeDto) >>

\* #[derive(Deserialize)] struct BaseOption<T>
DeserializeBaseOption(value, T) ==
    IF value.j /= "object" THEN NotAStruct
    ELSE LET o == value.o
         IN  Struct(OptionBaseFields(o, T) \o << Opt(o, "required", DeserializeBool) >>,
                    LAMBDA rs : [t |-> rs[1].v, name |-> rs[2].v])

\* #[derive(Deserialize)] struct StringOption (T = 3), IntegerOption (T = 4),
\* NumberOption (T = 10): BaseOption plus choices, two limits and autocomplete.
DeserializeChoiceOption(value, T, lo, hi, Limit(_)) ==
    IF value.j /= "object" THEN NotAStruct
    ELSE LET o == value.o
         IN  Struct(OptionBaseFields(o, T)
                       \o << Opt(o, "required", DeserializeBool),
                             Opt(o, "choices", DeserializeDto),
                             Opt(o, lo, Limit),
                             Opt(o, hi, Limit),
                             Opt(o, "autocomplete", DeserializeBool) >>,
                    LAMBDA rs : [t |-> rs[1].v, name |-> rs[2].v])

DeserializeStringOption(value) ==
    DeserializeChoiceOption(value, 3, "min_length", "max_length", DeserializeI64)
DeserializeIntegerOption(value) ==
    DeserializeChoiceOption(value, 4, "min_value", "max_value", DeserializeI64)
DeserializeNumberOption(value) ==
    DeserializeChoiceOption(value, 10, "min_value", "max_value", DeserializeF64)

\* impl Deserialize for SubcommandCommandOption
DeserializeSubcommandCommandOption(value) ==
    LET t == type_of(value)
    IN  IF ~t.some THEN MissingType
        ELSE CASE t.v = 3 -> Tag("String", MapErrCustom(DeserializeStringOption(value)))
               [] t.v = 4 -> Tag("Integer", MapErrCustom(DeserializeIntegerOption(value)))
               [] t.v = 5 -> Tag("Boolean", MapErrCustom(DeserializeBaseOption(value, 5)))
               [] t.v = 6 -> Tag("User", MapErrCustom(DeserializeBaseOption(value, 6)))
               [] t.v = 7 -> Tag("Channel", MapErrCustom(DeserializeBaseOption(value, 7)))
               [] t.v = 8 -> Tag("Role", MapErrCustom(DeserializeBaseOption(value, 8)))
               [] t.v = 9 -> Tag("Mentionable", MapErrCustom(DeserializeBaseOption(value, 9)))
               [] t.v = 10 -> Tag("Number", MapErrCustom(DeserializeNumberOption(value)))
               [] t.v = 11 -> Tag("Attachment", MapErrCustom(DeserializeBaseOption(value, 11)))
               [] OTHER -> Err("Unknown option")

DeserializeSubcommandCommandOptionVec(v) ==
    DeserializeVec(v, DeserializeSubcommandCommandOption)

\* #[derive(Deserialize)] struct SubcommandOption
DeserializeSubcommandOption(value) ==
    IF value.j /= "object" THEN NotAStruct
    ELSE LET o == value.o
         IN  Struct(OptionBaseFields(o, 1)
                       \o << Opt(o, "options", DeserializeSubcommandCommandOptionVec) >>,
                    LAMBDA rs : [t |-> rs[1].v, name |-> rs[2].v, options |-> rs[6].v])

DeserializeSubcommandOptionVec(v) == DeserializeVec(v, DeserializeSubcommandOption)

\* #[derive(Deserialize)] struct SubcommandGroupOption
DeserializeSubcommandGroupOption(value) ==
    IF value.j /= "object" THEN NotAStruct
    ELSE LET o == value.o
         IN  Struct(OptionBaseFields(o, 2)
                       \o << Opt(o, "options", DeserializeSubcommandOptionVec) >>,
                    LAMBDA rs : [t |-> rs[1].v, name |-> rs[2].v, options |-> rs[6].v])

\* impl Deserialize for ApplicationCommandOption
DeserializeApplicationCommandOption(value) ==
    LET t == type_of(value)
    IN  IF ~t.some THEN MissingType
        ELSE CASE t.v = 1 -> Tag("Subcommand", MapErrCustom(DeserializeSubcommandOption(value)))
               [] t.v = 2 -> Tag("SubcommandGroup", MapErrCustom(DeserializeSubcommandGroupOption(value)))
               [] t.v = 3 -> Tag("String", MapErrCustom(DeserializeStringOption(value)))
               [] t.v = 4 -> Tag("Integer", MapErrCustom(DeserializeIntegerOption(value)))
               [] t.v = 5 -> Tag("Boolean", MapErrCustom(DeserializeBaseOption(value, 5)))
               [] t.v = 6 -> Tag("User", MapErrCustom(DeserializeBaseOption(value, 6)))
               [] t.v = 7 -> Tag("Channel", MapErrCustom(DeserializeBaseOption(value, 7)))
               [] t.v = 8 -> Tag("Role", MapErrCustom(DeserializeBaseOption(value, 8)))
               [] t.v = 9 -> Tag("Mentionable", MapErrCustom(DeserializeBaseOption(value, 9)))
               [] t.v = 10 -> Tag("Number", MapErrCustom(DeserializeNumberOption(value)))
               [] t.v = 11 -> Tag("Attachment", MapErrCustom(DeserializeBaseOption(value, 11)))
               [] OTHER -> Err("Unknown option")

DeserializeApplicationCommandOptionVec(v) ==
    DeserializeVec(v, DeserializeApplicationCommandOption)

\* #[derive(Deserialize)] struct CommandDetails<T>, as the fields of object o.
CommandDetailsFields(o, T) ==
    << Req(o, "type", LAMBDA v : DeserializeTypeField(v, T)),
       Opt(o, "id", DeserializeSnowflake),
       Opt(o, "application_id", DeserializeSnowflake),
       Opt(o, "guild_id", DeserializeSnowflake),
       Req(o, "name", DeserializeString),
       Opt(o, "name_localizations", DeserializeDto),
       Opt(o, "default_member_permissions", DeserializeDto),
       Opt(o, "dm_permission", DeserializeBool),
       Opt(o, "nsfw", DeserializeBool),
       Opt(o, "version", DeserializeSnowflake) >>

DeserializeCommandDetails(value, T) ==
    IF value.j /= "object" THEN NotAStruct
    ELSE Struct(CommandDetailsFields(value.o, T),
                LAMBDA rs : [t |-> rs[1].v, name |-> rs[5].v])

\* #[derive(Deserialize)] struct ChatInputCommand<T>: the flattened details,
\* description, description_localizations, options.
DeserializeChatInputCommand(value, T) ==
    IF value.j /= "object" THEN NotAStruct
    ELSE LET o == value.o
         IN  Struct(CommandDetailsFields(o, T)
                       \o << Req(o, "description", DeserializeString),
                             Opt(o, "description_localizations", DeserializeDto),
                             Opt(o, "options", DeserializeApplicationCommandOptionVec) >>,
                    LAMBDA rs : [t |-> rs[1].v, name |-> rs[5].v])

\* impl Deserialize for ApplicationCommand with the arms of 2 and 3 exchanged.
DeserializeApplicationCommand_swapped(value) ==
    LET t == type_of(value)
    IN  IF ~t.some THEN MissingType
        ELSE CASE t.v = 1 -> Tag("ChatInputCommand", MapErrCustom(DeserializeChatInputCommand(value, 1)))
               [] t.v = 2 -> Tag("MessageCommand", MapErrCustom(DeserializeCommandDetails(value, 2)))
               [] t.v = 3 -> Tag("UserCommand", MapErrCustom(DeserializeCommandDetails(value, 3)))
               [] OTHER -> Err("Unknown command")

\* impl Deserialize for ApplicationCommand
DeserializeApplicationCommand(value) ==
    LET t == type_of(value)
    IN  IF ~t.some THEN MissingType
        ELSE CASE t.v = 1 -> Tag("ChatInputCommand", MapErrCustom(DeserializeChatInputCommand(value, 1)))
               [] t.v = 2 -> Tag("UserCommand", MapErrCustom(DeserializeCommandDetails(value, 2)))
               [] t.v = 3 -> Tag("MessageCommand", MapErrCustom(DeserializeCommandDetails(value, 3)))
               [] OTHER -> Err("Unknown command")

\* The highest limb of the sampled raws: all zeros, the value of the
\* snowflake.rs tests (1002), the top bit alone, all ones.
TopLimbSamples == {0, 1002, 32768, 65535}

RawSamples ==
    { U64OfLimbs(<<a, b, c, d>>) :
        a \in {0, 1, 4095, 65535}, b \in {0, 2112, 61440, 65535},
        c \in {0, 53011, 65535}, d \in TopLimbSamples }

\* 282265607313817601, the id used by the tests of snowflake.rs.
TestSnowflake == U64OfLimbs(<<1, 2112, 53011, 1002>>)

AllOnes == [i \in 1..U64_BITS |-> 1]

\* The variables of the decoders while another specification runs.
DecodeIdle == json = JNull /\ decoded = [family |-> "none"]

\* The variables of the Snowflake codec while another specification runs.
NoComparison == [eq |-> None, hash |-> None]

SnowflakeIdle ==
    /\ raw = U64Of(0) /\ sf = None /\ encoded = None
    /\ wire = None /\ other = None /\ cmp = NoComparison

\* The variables of the encoder while another specification runs.
EncodeIdle == response = [variant |-> "Pong"] /\ text = None

\* The variables of the webhook pipeline while another specification runs.
BotIdle ==
    /\ req = None /\ env = None /\ handler = None /\ pc = "idle"
    /\ bytes = None /\ validation = None /\ interaction = None
    /\ interaction_response = None /\ result = None /\ handler_calls = <<>>

\* The variables of the concurrent bots, the RoleTags decoder, the command
\* builders and update_commands while another specification runs.
ConcurrentIdle == bots = <<>>
RoleIdle == members = <<>> /\ role_tags = None
BuilderIdle ==
    /\ builder = None /\ command_builder = None /\ builder_calls = <<>> /\ built = None
UpdateIdle ==
    /\ token = TRUE /\ commands = <<>> /\ groups = None /\ requests = <<>>
    /\ server = <<>> /\ updated_commands = <<>> /\ update_result = None
LibIdle == ConcurrentIdle /\ RoleIdle /\ BuilderIdle /\ UpdateIdle

InitSnowflake ==
    /\ raw \in RawSamples
    /\ sf = None
    /\ encoded = None
    /\ wire = None /\ other = None /\ cmp = NoComparison
    /\ DecodeIdle
    /\ EncodeIdle
    /\ BotIdle
    /\ LibIdle

\* let snowflake = Snowflake::from(raw)
FromU64 ==
    /\ ~sf.some
    /\ sf' = Some(from_u64(raw))
    /\ UNCHANGED <<raw, encoded, wire, other, cmp, decodeVars, encodeVars, botVars, libVars>>

\* let back = snowflake.to_u64()
ToU64 ==
    /\ sf.some
    /\ ~encoded.some
    /\ \E checks \in BOOLEAN :
         encoded' = IF to_u64_underflows(sf.v) /\ checks
                    THEN [some |-> TRUE, panic |-> TRUE]
                    ELSE [some |-> TRUE, panic |-> FALSE, v |-> to_u64(sf.v)]
    /\ UNCHANGED <<raw, sf, wire, other, cmp, decodeVars, encodeVars, botVars, libVars>>

NextSnowflake == FromU64 \/ ToU64

SpecSnowflake == InitSnowflake /\ [][NextSnowflake]_vars

\* C1: for every raw u64, Snowflake::from_u64(raw).to_u64() == raw, including
\* the raws whose top 42 bits are all ones.
C1_RoundTrip ==
    encoded.some => (~encoded.panic /\ encoded.v = raw)

\* A raw value with all 42 timestamp bits set has been decoded and re-encoded.
C1_Witness ==
    /\ encoded.some
    /\ \A i \in (TIMESTAMP_SHIFT + 1)..U64_BITS : raw[i] = 1
    /\ ~encoded.panic
    /\ encoded.v = raw

(***************************************************************************)
(* The decoders on sampled JSON values                                     *)
(***************************************************************************)
\* Largest in-table discriminant sampled is MaxType; 99 stands for the rest.
MaxType == 12

S_ID == <<"7", "8", "6">>
S_NAME == <<"p", "i", "n", "g">>
S_TOKEN == <<"t", "o", "k">>

\* What the "type" key holds: nothing, a non-integer, a negative or fractional
\* number, or an unsigned integer.
TypeSamples ==
    {None, Some(JNull), Some(JString(<<"1">>)), Some(JBool(TRUE)),
     Some(JNegInt(1)), Some(JFloat("1.5")), Some(JPosInt(99))}
    \cup {Some(JPosInt(n)) : n \in 0..MaxType}

\* o with key k bound to v.v, or without k when v is None.
With(o, k, v) ==
    LET rest == [x \in DOMAIN o \ {k} |-> o[x]]
    IN  IF v.some THEN (k :> v.v) @@ rest ELSE rest

\* A data option of kind String and a Subcommand holding it.
StringChild == JObject([type |-> JPosInt(3), name |-> JString(S_NAME), value |-> JString(S_NAME)])
SubcommandChild ==
    JObject([type |-> JPosInt(1), name |-> JString(S_NAME), options |-> JArray(<<StringChild>>)])

\* An object that carries, besides "type", every key that some struct of the
\* five families requires, with a value that struct accepts.
UniversalData ==
    [ type |-> JPosInt(1), id |-> JString(S_ID), name |-> JString(S_NAME),
      custom_id |-> JString(S_NAME), component_type |-> JPosInt(2),
      components |-> JArray(<<>>) ]

Universal ==
    [ id |-> JString(S_ID), application_id |-> JString(S_ID),
      token |-> JString(S_TOKEN), version |-> JPosInt(1),
      member |-> JDto(TRUE), locale |-> JString(S_NAME),
      data |-> JObject(UniversalData),
      name |-> JString(S_NAME), description |-> JString(S_NAME),
      custom_id |-> JString(S_NAME), style |-> JPosInt(1), label |-> JString(S_NAME),
      value |-> JString(S_ID), options |-> JArray(<<SubcommandChild>>) ]

ValueSamples ==
    {None, Some(JString(S_ID)), Some(JString(<<"1", "a">>)), Some(JPosInt(5)), Some(JBool(TRUE))}
OptionsSamples ==
    {None, Some(JArray(<<>>)), Some(JArray(<<SubcommandChild>>)),
     Some(JArray(<<StringChild, SubcommandChild>>)),
     Some(JArray(<<SubcommandChild, StringChild>>))}
TokenSamples == {None, Some(JString(S_TOKEN))}
DataSamples == {None, Some(JNull), Some(JObject(UniversalData)),
                Some(JObject([custom_id |-> JString(S_NAME)]))}

\* An interaction carries the number 1 as its version, a command a Snowflake.
VersionSamples == {Some(JPosInt(1)), Some(JString(S_ID))}

JsonSamples ==
    { JObject(With(With(With(With(With(With(Universal,
          "type", t), "value", v), "options", os), "token", tk), "data", d), "version", ver)) :
        t \in TypeSamples, v \in ValueSamples, os \in OptionsSamples,
        tk \in TokenSamples, d \in DataSamples, ver \in VersionSamples }
    \cup {JNull, JPosInt(1), JArray(<<>>), JString(<<"1">>)}

InitDecode ==
    /\ json \in JsonSamples
    /\ decoded = [family |-> "none"]
    /\ SnowflakeIdle
    /\ EncodeIdle
    /\ BotIdle
    /\ LibIdle

\* serde_json::from_value::<Interaction>(json)
DecodeInteraction ==
    /\ decoded.family = "none"
    /\ decoded' = [family |-> "Interaction", result |-> DeserializeInteraction(json)]
    /\ UNCHANGED <<json, snowflakeVars, encodeVars, botVars, libVars>>

\* serde_json::from_value::<ApplicationCommand>(json)
DecodeApplicationCommand ==
    /\ decoded.family = "none"
    /\ decoded' = [family |-> "ApplicationCommand",
                   result |-> DeserializeApplicationCommand(json)]
    /\ UNCHANGED <<json, snowflakeVars, encodeVars, botVars, libVars>>

\* serde_json::from_value::<ApplicationCommandOption>(json)
DecodeApplicationCommandOption ==
    /\ decoded.family = "none"
    /\ decoded' = [family |-> "ApplicationCommandOption",
                   result |-> DeserializeApplicationCommandOption(json)]
    /\ UNCHANGED <<json, snowflakeVars, encodeVars, botVars, libVars>>

\* serde_json::from_value::<Component>(json)
DecodeComponent ==
    /\ decoded.family = "none"
    /\ decoded' = [family |-> "Component", result |-> DeserializeComponent(json)]
    /\ UNCHANGED <<json, snowflakeVars, encodeVars, botVars, libVars>>

\* serde_json::from_value::<ApplicationCommandInteractionDataOption>(json)
DecodeDataOption ==
    /\ decoded.family = "none"
    /\ decoded' = [family |-> "ApplicationCommandInteractionDataOption",
                   result |-> DeserializeDataOption(json)]
    /\ UNCHANGED <<json, snowflakeVars, encodeVars, botVars, libVars>>

\* The "type" member of json read straight off the value: an unsigned integer
\* n gives n, anything else (no object, no key, another JSON kind) gives -1.
WireType ==
    IF json.j = "object" /\ "type" \in DOMAIN json.o /\ json.o["type"].j = "posint"
    THEN json.o["type"].n
    ELSE -1

\* json carries every key of Universal with Universal's value.
IsUniversal ==
    /\ json.j = "object"
    /\ \A k \in DOMAIN Universal : k \in DOMAIN json.o /\ json.o[k] = Universal[k]

\* Interaction discriminants of the wire protocol.
InteractionVariantOf(n) ==
    CASE n = 1 -> "Ping"
      [] n = 2 -> "ApplicationCommand"
      [] n = 3 -> "MessageComponent"
      [] n = 4 -> "ApplicationCommandAutocomplete"
      [] n = 5 -> "ModalSubmit"
      [] OTHER -> "none"

\* C5: an Interaction decodes to the variant its top-level type names (1 Ping,
\* 2 ApplicationCommand, 3 MessageComponent, 4 ApplicationCommandAutocomplete,
\* 5 ModalSubmit), whatever else the body holds; a body with the header and a
\* data object fitting that variant does decode; any other type value fails.
C5_DispatchByType ==
    decoded.family = "Interaction" =>
        /\ decoded.result.ok =>
              /\ WireType \in 1..5
              /\ decoded.result.v.variant = InteractionVariantOf(WireType)
        /\ (IsUniversal /\ WireType \in 1..5) => decoded.result.ok
        /\ WireType \notin 1..5 => ~decoded.result.ok

\* A body holding data that fits all three data structs was decoded with type
\* 3 and came out as MessageComponent.
C5_Witness ==
    /\ decoded.family = "Interaction"
    /\ IsUniversal
    /\ WireType = 3
    /\ decoded.result.ok
    /\ decoded.result.v.variant = "MessageComponent"

\* The discriminants each family's decoder accepts.
DiscriminantTable(family) ==
    CASE family = "Interaction" -> 1..5
      [] family = "ApplicationCommand" -> 1..3
      [] family = "ApplicationCommandOption" -> 1..11
      [] family = "Component" -> 2..8
      [] family = "ApplicationCommandInteractionDataOption" -> 1..11

\* C6: in each of the five tagged families, decoding returns an error, never a
\* variant, when type is absent, is not an unsigned integer, or is outside the
\* family's discriminant table.
C6_UnknownTagIsError ==
    (decoded.family /= "none" /\ WireType \notin DiscriminantTable(decoded.family)) =>
        (~decoded.result.ok /\ ~decoded.result.panic)

\* An otherwise complete data option whose type is the negative integer -1 was
\* decoded and refused.
C6_Witness ==
    /\ decoded.family = "ApplicationCommandInteractionDataOption"
    /\ IsUniversal
    /\ "type" \in DOMAIN json.o
    /\ json.o["type"] = JNegInt(1)
    /\ ~decoded.result.ok

(***************************************************************************)
(* JSON text.  A text is the sequence of its lexical tokens: punctuation,  *)
(* an object key, or a scalar (string, number, bool, null, or the text of  *)
(* a nested value that a plain derived struct reads or writes).            *)
(***************************************************************************)
Punct(c) == [t |-> c]
Key(k) == [t |-> "key", k |-> k]
Scalar(v) == [t |-> "scalar", v |-> v]

\* serde_json's Serializer::serialize_map(Some(2)): the opening brace.  The
\* length hint is not written.
serialize_map == <<Punct("{")>>

\* SerializeMap::serialize_entry on the stream written so far: a comma unless
\* this is the first entry, the key, a colon, the value.
serialize_entry(map, key, value) ==
    map \o (IF Len(map) = 1 THEN <<>> ELSE <<Punct(",")>>) \o <<Key(key), Punct(":")>> \o value

\* SerializeMap::end(): the closing brace.
serialize_end(map) == map \o <<Punct("}")>>

\* A struct field to write: its key, its value as Option of tokens, and
\* whether it stands under #[serde(skip_serializing_if = "Option::is_none")].
Field(key, value, skip) == [key |-> key, value |-> value, skip |-> skip]

\* The texts of parts, one after the other.
RECURSIVE Concat(_)
Concat(parts) ==
    IF Len(parts) = 0 THEN <<>>
    ELSE IF Len(parts) = 1 THEN parts[1]
    ELSE LET h == Len(parts) \div 2
         IN  Concat(SubSeq(parts, 1, h)) \o Concat(SubSeq(parts, h + 1, Len(parts)))

\* The items separated by commas.
CommaSeparated(items) ==
    Concat([i \in 1..Len(items) |-> IF i = 1 THEN items[i] ELSE <<Punct(",")>> \o items[i]])

\* The derived Serialize of a struct: every field in declaration order; a
\* None field is left out when skipped and written as null otherwise.
SerializeStruct(fields) ==
    LET written == SelectSeq(fields, LAMBDA f : f.value.some \/ ~f.skip)
        entry(f) == <<Key(f.key), Punct(":")>>
                    \o (IF f.value.some THEN f.value.v ELSE <<Scalar(JNull)>>)
    IN  <<Punct("{")>>
        \o CommaSeparated([i \in 1..Len(written) |-> entry(written[i])])
        \o <<Punct("}")>>

\* Serializer::serialize_seq over the texts of the elements.
SerializeSeq(elements) == <<Punct("[")>> \o CommaSeparated(elements) \o <<Punct("]")>>

\* Option<bool>, Option<String> and Option<opaque> as tokens.
OptBool(o) == IF o.some THEN Some(<<Scalar(JBool(o.v))>>) ELSE None
OptString(o) == IF o.some THEN Some(<<Scalar(JString(o.v))>>) ELSE None
OptDto(o) == IF o.some THEN Some(<<Scalar(o.v)>>) ELSE None

\* The tokens of one JSON value starting at position i of ts, and the position
\* after it; no value there is a syntax error.
ParseFail == [ok |-> FALSE, next |-> 0]
ParseOk(v, next) == [ok |-> TRUE, v |-> v, next |-> next]

RECURSIVE ParseValue(_, _), ParseMembers(_, _, _), ParseElements(_, _, _)
ParseValue(ts, i) ==
    IF i > Len(ts) THEN ParseFail
    ELSE IF ts[i].t = "scalar" THEN ParseOk(ts[i].v, i + 1)
    ELSE IF ts[i].t = "{" THEN
        IF i + 1 <= Len(ts) /\ ts[i + 1].t = "}" THEN ParseOk(JObject(<<>>), i + 2)
        ELSE ParseMembers(ts, i + 1, <<>>)
    ELSE IF ts[i].t = "[" THEN
        IF i + 1 <= Len(ts) /\ ts[i + 1].t = "]" THEN ParseOk(JArray(<<>>), i + 2)
        ELSE ParseElements(ts, i + 1, <<>>)
    ELSE ParseFail

\* The members of an object from the key at i on; o holds those read so far.
\* A key read twice keeps its last value.
ParseMembers(ts, i, o) ==
    IF i + 1 > Len(ts) \/ ts[i].t /= "key" \/ ts[i + 1].t /= ":" THEN ParseFail
    ELSE LET p == ParseValue(ts, i + 2)
         IN  IF ~p.ok \/ p.next > Len(ts) THEN ParseFail
             ELSE IF ts[p.next].t = "}"
                  THEN ParseOk(JObject((ts[i].k :> p.v) @@ o), p.next + 1)
             ELSE IF ts[p.next].t = ","
                  THEN ParseMembers(ts, p.next + 1, (ts[i].k :> p.v) @@ o)
             ELSE ParseFail

\* The elements of an array from the value at i on; a holds those read so far.
ParseElements(ts, i, a) ==
    LET p == ParseValue(ts, i)
    IN  IF ~p.ok \/ p.next > Len(ts) THEN ParseFail
        ELSE IF ts[p.next].t = "]" THEN ParseOk(JArray(Append(a, p.v)), p.next + 1)
        ELSE IF ts[p.next].t = "," THEN ParseElements(ts, p.next + 1, Append(a, p.v))
        ELSE ParseFail

\* How many brackets are open before position i of ts.
Depth(ts, i) ==
    Cardinality({j \in 1..(i - 1) : ts[j].t \in {"{", "["}})
    - Cardinality({j \in 1..(i - 1) : ts[j].t \in {"}", "]"}})

\* The positions of the keys written at the top level of the object text ts.
TopLevelKeys(ts) == {i \in 1..Len(ts) : ts[i].t = "key" /\ Depth(ts, i) = 1}

(***************************************************************************)
(* impl Serialize for InteractionResponse and its payloads                 *)
(* (src/models/serialize/interaction_response.rs, common/embed.rs)         *)
(***************************************************************************)
TYPE_KEY == "type"
DATA_KEY == "data"

\* #[derive(Serialize)] #[serde(tag = "type", rename = "rich")] struct Embed:
\* the tag, then all twelve fields, None as null.
SerializeEmbed(e) ==
    SerializeStruct(<<
        Field("type", Some(<<Scalar(JString(<<"rich">>))>>), FALSE),
        Field("title", OptString(e.title), FALSE),
        Field("description", OptString(e.description), FALSE),
        Field("url", OptString(e.url), FALSE),
        Field("timestamp", OptString(e.timestamp), FALSE),
        Field("color", IF e.color.some THEN Some(<<Scalar(JPosInt(e.color.v))>>) ELSE None, FALSE),
        Field("footer", OptDto(e.footer), FALSE),
        Field("image", OptDto(e.image), FALSE),
        Field("thumbnail", OptDto(e.thumbnail), FALSE),
        Field("video", OptDto(e.video), FALSE),
        Field("provider", OptDto(e.provider), FALSE),
        Field("author", OptDto(e.author), FALSE),
        Field("fields", OptDto(e.fields), FALSE) >>)

OptEmbeds(o) ==
    IF o.some THEN Some(SerializeSeq([i \in 1..Len(o.v) |-> SerializeEmbed(o.v[i])]))
    ELSE None

\* #[derive(Serialize)] struct MessageCallbackData: every field is skipped
\* when None.
SerializeMessageCallbackData(d) ==
    SerializeStruct(<<
        Field("tts", OptBool(d.tts), TRUE),
        Field("content", OptString(d.content), TRUE),
        Field("embeds", OptEmbeds(d.embeds), TRUE),
        Field("allowed_mentions", OptDto(d.allowed_mentions), TRUE),
        Field("flags", OptDto(d.flags), TRUE),
        Field("components", OptDto(d.components), TRUE),
        Field("attachments", OptDto(d.attachments), TRUE) >>)

\* struct ApplicationCommandOptionChoice; its value is an untagged enum and
\* is written as the bare string or number.
SerializeChoice(c) ==
    SerializeStruct(<<
        Field("name", Some(<<Scalar(JString(c.name))>>), FALSE),
        Field("name_localizations", OptDto(c.name_localizations), TRUE),
        Field("value", Some(<<Scalar(c.value)>>), FALSE) >>)

\* struct AutocompleteCallbackData { choices }
SerializeAutocompleteCallbackData(d) ==
    SerializeStruct(<<
        Field("choices",
              Some(SerializeSeq([i \in 1..Len(d.choices) |-> SerializeChoice(d.choices[i])])),
              FALSE) >>)

\* struct ModalCallbackData: custom_id and title always, the rest skipped
\* when None.
SerializeModalCallbackData(d) ==
    SerializeStruct(<<
        Field("custom_id", Some(<<Scalar(JString(d.custom_id))>>), FALSE),
        Field("title", Some(<<Scalar(JString(d.title))>>), FALSE),
        Field("components", OptDto(d.components), TRUE),
        Field("tts", OptBool(d.tts), TRUE),
        Field("content", OptString(d.content), TRUE),
        Field("embeds", OptEmbeds(d.embeds), TRUE),
        Field("allowed_mentions", OptDto(d.allowed_mentions), TRUE),
        Field("flags", OptDto(d.flags), TRUE) >>)

\* map.serialize_entry(TYPE_KEY, &n) on a fresh map.
TypeEntry(n) == serialize_entry(serialize_map, TYPE_KEY, <<Scalar(JPosInt(n))>>)

\* The encoder with UpdateMessage written under ChannelMessageWithSource's type.
SerializeInteractionResponse_shared_type(r) ==
    serialize_end(
        CASE r.variant = "Pong" -> TypeEntry(1)
          [] r.variant = "ChannelMessageWithSource" ->
                 serialize_entry(TypeEntry(4), DATA_KEY, SerializeMessageCallbackData(r.data))
          [] r.variant = "DeferredChannelMessageWithSource" -> TypeEntry(5)
          [] r.variant = "DeferredUpdateMessage" -> TypeEntry(6)
          [] r.variant = "UpdateMessage" ->
                 serialize_entry(TypeEntry(4), DATA_KEY, SerializeMessageCallbackData(r.data))
          [] r.variant = "ApplicationCommandAutocompleteResult" ->
                 serialize_entry(TypeEntry(8), DATA_KEY, SerializeAutocompleteCallbackData(r.data))
          [] r.variant = "Modal" ->
                 serialize_entry(TypeEntry(9), DATA_KEY, SerializeModalCallbackData(r.data)))

\* The encoder writing a null data entry for the variants without payload.
SerializeInteractionResponse_null_data(r) ==
    serialize_end(
        CASE r.variant = "Pong" ->
                 serialize_entry(TypeEntry(1), DATA_KEY, <<Scalar(JNull)>>)
          [] r.variant = "ChannelMessageWithSource" ->
                 serialize_entry(TypeEntry(4), DATA_KEY, SerializeMessageCallbackData(r.data))
          [] r.variant = "DeferredChannelMessageWithSource" ->
                 serialize_entry(TypeEntry(5), DATA_KEY, <<Scalar(JNull)>>)
          [] r.variant = "DeferredUpdateMessage" ->
                 serialize_entry(TypeEntry(6), DATA_KEY, <<Scalar(JNull)>>)
          [] r.variant = "UpdateMessage" ->
                 serialize_entry(TypeEntry(7), DATA_KEY, SerializeMessageCallbackData(r.data))
          [] r.variant = "ApplicationCommandAutocompleteResult" ->
                 serialize_entry(TypeEntry(8), DATA_KEY, SerializeAutocompleteCallbackData(r.data))
          [] r.variant = "Modal" ->
                 serialize_entry(TypeEntry(9), DATA_KEY, SerializeModalCallbackData(r.data)))

\* impl Serialize for InteractionResponse: a map holding the type entry and,
\* for the four variants with a payload, the data entry.
SerializeInteractionResponse(r) ==
    serialize_end(
        CASE r.variant = "Pong" -> TypeEntry(1)
          [] r.variant = "ChannelMessageWithSource" ->
                 serialize_entry(TypeEntry(4), DATA_KEY, SerializeMessageCallbackData(r.data))
          [] r.variant = "DeferredChannelMessageWithSource" -> TypeEntry(5)
          [] r.variant = "DeferredUpdateMessage" -> TypeEntry(6)
          [] r.variant = "UpdateMessage" ->
                 serialize_entry(TypeEntry(7), DATA_KEY, SerializeMessageCallbackData(r.data))
          [] r.variant = "ApplicationCommandAutocompleteResult" ->
                 serialize_entry(TypeEntry(8), DATA_KEY, SerializeAutocompleteCallbackData(r.data))
          [] r.variant = "Modal" ->
                 serialize_entry(TypeEntry(9), DATA_KEY, SerializeModalCallbackData(r.data)))

\* serde_json::to_string(&response); no value of these types fails to serialize.
to_string(r) == Ok(SerializeInteractionResponse(r))

(***************************************************************************)
(* The encoder on sampled responses                                        *)
(***************************************************************************)
S_TEXT == <<"h", "i">>

\* EmbedBuilder::new(): every field None.
EmptyEmbed ==
    [ title |-> None, description |-> None, url |-> None, timestamp |-> None,
      color |-> None, footer |-> None, image |-> None, thumbnail |-> None,
      video |-> None, provider |-> None, author |-> None, fields |-> None ]

EmbedSamples ==
    { [EmptyEmbed EXCEPT !.title = t, !.color = c, !.footer = f] :
        t \in {None, Some(S_TEXT)}, c \in {None, Some(255)}, f \in {None, Some(JDto(TRUE))} }

EmbedsSamples ==
    {None, Some(<<>>)} \cup {Some(<<e>>) : e \in EmbedSamples}
    \cup {Some(<<EmptyEmbed, [EmptyEmbed EXCEPT !.title = Some(S_TEXT)]>>)}

MessageCallbackDataSamples ==
    { [ tts |-> tts, content |-> content, embeds |-> embeds, allowed_mentions |-> None,
        flags |-> flags, components |-> None, attachments |-> None ] :
        tts \in {None, Some(TRUE)}, content \in {None, Some(S_TEXT)},
        embeds \in EmbedsSamples, flags \in {None, Some(JDto(TRUE))} }

ChoiceSamples ==
    { [name |-> S_TEXT, name_localizations |-> l, value |-> v] :
        l \in {None, Some(JDto(TRUE))},
        v \in {JString(S_TEXT), JNegInt(3), JFloat("1.5")} }

AutocompleteCallbackDataSamples ==
    {[choices |-> <<>>]} \cup {[choices |-> <<c>>] : c \in ChoiceSamples}

ModalCallbackDataSamples ==
    { [ custom_id |-> S_TEXT, title |-> S_TEXT, components |-> components, tts |-> tts,
        content |-> content, embeds |-> None, allowed_mentions |-> None, flags |-> None ] :
        components \in {None, Some(JDto(TRUE))}, tts \in {None, Some(FALSE)},
        content \in {None, Some(S_TEXT)} }

ResponseSamples ==
    {[variant |-> v] : v \in {"Pong", "DeferredChannelMessageWithSource", "DeferredUpdateMessage"}}
    \cup {[variant |-> v, data |-> d] :
            v \in {"ChannelMessageWithSource", "UpdateMessage"}, d \in MessageCallbackDataSamples}
    \cup {[variant |-> "ApplicationCommandAutocompleteResult", data |-> d] :
            d \in AutocompleteCallbackDataSamples}
    \cup {[variant |-> "Modal", data |-> d] : d \in ModalCallbackDataSamples}

InitEncode ==
    /\ response \in ResponseSamples
    /\ text = None
    /\ SnowflakeIdle
    /\ DecodeIdle
    /\ BotIdle
    /\ LibIdle

\* let text = serde_json::to_string(&response)
SerializeToString ==
    /\ ~text.some
    /\ text' = Some(to_string(response))
    /\ UNCHANGED <<response, snowflakeVars, decodeVars, botVars, libVars>>

NextEncode == SerializeToString

SpecEncode == InitEncode /\ [][NextEncode]_vars

\* The type value the wire protocol gives each InteractionResponse variant.
ResponseTypeOf(variant) ==
    CASE variant = "Pong" -> 1
      [] variant = "ChannelMessageWithSource" -> 4
      [] variant = "DeferredChannelMessageWithSource" -> 5
      [] variant = "DeferredUpdateMessage" -> 6
      [] variant = "UpdateMessage" -> 7
      [] variant = "ApplicationCommandAutocompleteResult" -> 8
      [] variant = "Modal" -> 9

\* The variant a type value on the wire stands for.
ResponseVariantOf(n) ==
    CHOOSE v \in {r.variant : r \in ResponseSamples} : ResponseTypeOf(v) = n

\* The serialized text read back as a JSON value.
Reparsed == ParseValue(text.v.v, 1)

\* C7: every serialized InteractionResponse is an object with exactly one
\* top-level type key, holding 1, 4, 5, 6, 7, 8 or 9 as the variant is Pong,
\* ChannelMessageWithSource, DeferredChannelMessageWithSource,
\* DeferredUpdateMessage, UpdateMessage, ApplicationCommandAutocompleteResult
\* or Modal, so that the value read back names the variant written.
C7_TypeFixedByVariant ==
    text.some =>
        /\ text.v.ok
        /\ Reparsed.ok /\ Reparsed.next = Len(text.v.v) + 1
        /\ Reparsed.v.j = "object"
        /\ Cardinality({i \in TopLevelKeys(text.v.v) : text.v.v[i].k = "type"}) = 1
        /\ Reparsed.v.o["type"] = JPosInt(ResponseTypeOf(response.variant))
        /\ ResponseVariantOf(Reparsed.v.o["type"].n) = response.variant

\* An UpdateMessage carrying an embed was serialized with type 7.
C7_Witness ==
    /\ text.some
    /\ response.variant = "UpdateMessage"
    /\ response.data.embeds.some
    /\ Len(response.data.embeds.v) > 0
    /\ Reparsed.ok
    /\ Reparsed.v.o["type"] = JPosInt(7)

Payloadless == {"Pong", "DeferredChannelMessageWithSource", "DeferredUpdateMessage"}

\* The text {"type":n}.
TypeOnlyText(n) ==
    <<Punct("{"), Key("type"), Punct(":"), Scalar(JPosInt(n)), Punct("}")>>

\* C8: the serialized text has a data key exactly when the variant carries a
\* payload: Pong, DeferredChannelMessageWithSource and DeferredUpdateMessage
\* give exactly {"type":n} (no data key, not even a null one), the other four
\* give an object whose keys are exactly type and data.
C8_DataIffPayload ==
    text.some =>
        /\ text.v.ok
        /\ Reparsed.ok /\ Reparsed.next = Len(text.v.v) + 1
        /\ response.variant \in Payloadless =>
              /\ text.v.v = TypeOnlyText(ResponseTypeOf(response.variant))
              /\ DOMAIN Reparsed.v.o = {"type"}
        /\ response.variant \notin Payloadless =>
              /\ Cardinality(TopLevelKeys(text.v.v)) = 2
              /\ DOMAIN Reparsed.v.o = {"type", "data"}
              /\ Reparsed.v.o["data"].j = "object"

\* DeferredUpdateMessage came out as exactly {"type":6}.
C8_Witness ==
    /\ text.some
    /\ response.variant = "DeferredUpdateMessage"
    /\ text.v.v = TypeOnlyText(6)

(***************************************************************************)
(* composure::auth (auth/src/lib.rs).  A byte string is its length and     *)
(* what it encodes; a hex string is its length in characters, whether all  *)
(* of them are hex digits, and what its digits decode to.  Ed25519 is      *)
(* taken as ideal: a signature verifies under a key exactly when it was    *)
(* made with that key's secret half over the same message.                 *)
(***************************************************************************)
Bytes(len, data) == [len |-> len, data |-> data]
HexString(len, valid, data) == [len |-> len, valid |-> valid, data |-> data]

\* hex::encode
hex_encode(b) == HexString(2 * b.len, TRUE, b.data)

\* hex::decode: OddLength is checked first, then every character.
hex_decode(h) ==
    IF h.len % 2 = 1 THEN Err("OddLength")
    ELSE IF ~h.valid THEN Err("InvalidHexCharacter")
    ELSE Ok(Bytes(h.len \div 2, h.data))

\* timestamp.as_bytes(): one byte token per character.
as_bytes(string) == [i \in 1..Len(string) |-> [t |-> "byte", c |-> string[i]]]

PUBLIC_KEY_LENGTH == 32
SIGNATURE_LENGTH == 64

\* The key pairs that exist: Discord's and somebody else's.
KeyPairs == {"discord", "attacker"}

\* PublicKey::from_bytes: 32 bytes that are a point of the curve.
PublicKey_from_bytes(b) ==
    IF b.len = PUBLIC_KEY_LENGTH /\ b.data \in KeyPairs THEN Ok(b.data)
    ELSE Err("SignatureError")

\* Signature::from_bytes: 64 bytes.
Signature_from_bytes(b) ==
    IF b.len = SIGNATURE_LENGTH THEN Ok(b.data) ELSE Err("SignatureError")

\* The signature key makes over message.
Sign(key, message) == Bytes(SIGNATURE_LENGTH, [signer |-> key, msg |-> message])

\* public_key.verify(&message, &signature)
verify(public_key, message, signature) ==
    IF signature.signer = public_key /\ signature.msg = message THEN Ok(TRUE)
    ELSE Err("SignatureError")

\* validate_bytes with the message concatenated as [body, timestamp].
validate_bytes_body_first(public_key, signature, timestamp, body) ==
    LET message == body \o timestamp
        pk == PublicKey_from_bytes(public_key)
        sig == Signature_from_bytes(signature)
    IN  IF ~pk.ok THEN pk
        ELSE IF ~sig.ok THEN sig
        ELSE verify(pk.v, message, sig.v)

\* fn validate_bytes
validate_bytes(public_key, signature, timestamp, body) ==
    LET message == timestamp \o body
        pk == PublicKey_from_bytes(public_key)
        sig == Signature_from_bytes(signature)
    IN  IF ~pk.ok THEN pk
        ELSE IF ~sig.ok THEN sig
        ELSE verify(pk.v, message, sig.v)

\* composure::auth::validate_request verifying the timestamp, a full stop and
\* the body.
auth_validate_request_delimited(public_key, signature, timestamp, body) ==
    LET pk == hex_decode(public_key)
        sig == hex_decode(signature)
    IN  IF ~pk.ok THEN Err("HexError")
        ELSE IF ~sig.ok THEN Err("HexError")
        ELSE IF validate_bytes(pk.v, sig.v, as_bytes(timestamp \o <<".">>), body).ok THEN Ok(TRUE)
        ELSE Err("SignatureError")

\* composure::auth::validate_request
auth_validate_request(public_key, signature, timestamp, body) ==
    LET pk == hex_decode(public_key)
        sig == hex_decode(signature)
    IN  IF ~pk.ok THEN Err("HexError")
        ELSE IF ~sig.ok THEN Err("HexError")
        ELSE IF validate_bytes(pk.v, sig.v, as_bytes(timestamp), body).ok THEN Ok(TRUE)
        ELSE Err("SignatureError")

(***************************************************************************)
(* The Cloudflare adapter (adapters/cloudflare/src/lib.rs)                 *)
(***************************************************************************)
\* validate_request with a hex failure reported as its own error kind.
validate_request_hex_kind(e, headers, body) ==
    IF ~headers.signature.some THEN Panic("Missing Ed25519")
    ELSE IF ~headers.timestamp.some THEN Panic("Missing Timestamp")
    ELSE IF ~e.secret.ok THEN Err("WorkerError")
    ELSE LET r == auth_validate_request(e.secret.v, headers.signature.v,
                                        headers.timestamp.v, body)
         IN  IF r.ok THEN Ok(TRUE)
             ELSE IF r.err = "HexError" THEN Err("NoCommandHandler")
             ELSE Err("ValidationError")

\* pub fn validate_request(env, headers, body).  Headers::get fails only on a
\* malformed header name, which neither literal is; a missing header is
\* Ok(None) and meets expect.
validate_request(e, headers, body) ==
    IF ~headers.signature.some THEN Panic("Missing Ed25519")
    ELSE IF ~headers.timestamp.some THEN Panic("Missing Timestamp")
    ELSE IF ~e.secret.ok THEN Err("WorkerError")
    ELSE IF auth_validate_request(e.secret.v, headers.signature.v,
                                  headers.timestamp.v, body).ok
         THEN Ok(TRUE)
    ELSE Err("ValidationError")

\* worker::Response::error(msg, status)
Response_error(msg, status) ==
    Ok([status |-> status, body |-> [kind |-> "text", text |-> msg]])

\* worker::Response::from_json(&value): status 200 and the value's JSON text.
Response_from_json(r) ==
    LET t == to_string(r)
    IN  IF t.ok THEN Ok([status |-> 200, body |-> [kind |-> "json", json |-> t.v]])
        ELSE Err("SerdeJsonError")

\* serde_json::from_slice::<Interaction>(&bytes): the text is read as one
\* JSON value, decoded, and must then have ended.
from_slice(b) ==
    IF ~ParseValue(b, 1).ok THEN Err("syntax error")
    ELSE AndThen(DeserializeInteraction(ParseValue(b, 1).v), LAMBDA i :
            IF ParseValue(b, 1).next <= Len(b) THEN Err("trailing characters")
            ELSE Ok(i))

\* EmbedBuilder::new().with_title(title).with_color(color)
EmbedWith(title, color) ==
    [ title |-> Some(title), description |-> None, url |-> None, timestamp |-> None,
      color |-> Some(color), footer |-> None, image |-> None, thumbnail |-> None,
      video |-> None, provider |-> None, author |-> None, fields |-> None ]

\* 0xf04747
NO_HANDLER_COLOR == 15746887

\* InteractionResponse::respond_with_message in place of respond_with_embed.
respond_with_embed_as_message(embed) ==
    [ variant |-> "ChannelMessageWithSource",
      data |-> [ tts |-> None, content |-> embed.title, embeds |-> None,
                 allowed_mentions |-> None, flags |-> None, components |-> None,
                 attachments |-> None ] ]

\* InteractionResponse::respond_with_embed
respond_with_embed(embed) ==
    [ variant |-> "ChannelMessageWithSource",
      data |-> [ tts |-> None, content |-> None, embeds |-> Some(<<embed>>),
                 allowed_mentions |-> None, flags |-> None, components |-> None,
                 attachments |-> None ] ]

\* What the match on the interaction comes to before process() next awaits:
\* a response at hand, a handler method to call, or todo!().
Ready(value) == [kind |-> "ready", value |-> value]
Call(method) == [kind |-> "call", method |-> method]
Todo == [kind |-> "panic"]

\* The match with the Ping arm handing the interaction to the handler.
dispatch_ping_to_handler(i, h) ==
    CASE i.variant = "Ping" -> IF h.some THEN Call("command") ELSE Ready(Ok([variant |-> "Pong"]))
      [] i.variant = "ApplicationCommand" ->
            IF h.some THEN Call("command")
            ELSE Ready(Ok(respond_with_embed(EmbedWith(<<"No command handler">>, NO_HANDLER_COLOR))))
      [] i.variant = "MessageComponent" ->
            IF h.some THEN Call("component")
            ELSE Ready(Ok(respond_with_embed(EmbedWith(<<"No component handler">>, NO_HANDLER_COLOR))))
      [] i.variant = "ApplicationCommandAutocomplete" -> Todo
      [] i.variant = "ModalSubmit" -> Todo

\* The match with the MessageComponent arm calling handler.command.
dispatch_component_to_command(i, h) ==
    CASE i.variant = "Ping" -> Ready(Ok([variant |-> "Pong"]))
      [] i.variant = "ApplicationCommand" ->
            IF h.some THEN Call("command")
            ELSE Ready(Ok(respond_with_embed(EmbedWith(<<"No command handler">>, NO_HANDLER_COLOR))))
      [] i.variant = "MessageComponent" ->
            IF h.some THEN Call("command")
            ELSE Ready(Ok(respond_with_embed(EmbedWith(<<"No component handler">>, NO_HANDLER_COLOR))))
      [] i.variant = "ApplicationCommandAutocomplete" -> Todo
      [] i.variant = "ModalSubmit" -> Todo

\* let interaction_response = match interaction { ... }
dispatch(i, h) ==
    CASE i.variant = "Ping" -> Ready(Ok([variant |-> "Pong"]))
      [] i.variant = "ApplicationCommand" ->
            IF h.some THEN Call("command")
            ELSE Ready(Ok(respond_with_embed(EmbedWith(<<"No command handler">>, NO_HANDLER_COLOR))))
      [] i.variant = "MessageComponent" ->
            IF h.some THEN Call("component")
            ELSE Ready(Ok(respond_with_embed(EmbedWith(<<"No component handler">>, NO_HANDLER_COLOR))))
      [] i.variant = "ApplicationCommandAutocomplete" -> Todo
      [] i.variant = "ModalSubmit" -> Todo

(***************************************************************************)
(* The pipeline on sampled requests                                        *)
(***************************************************************************)
\* impl Serialize for Value (serde_json::to_vec): the text of a document, an
\* object's keys in the order of its map.
RECURSIVE SetToSeq(_)
SetToSeq(S) ==
    IF S = {} THEN <<>>
    ELSE LET x == CHOOSE x \in S : TRUE IN <<x>> \o SetToSeq(S \ {x})

RECURSIVE to_vec(_)
to_vec(v) ==
    IF v.j = "object"
    THEN LET keys == SetToSeq(DOMAIN v.o)
         IN  SerializeStruct([i \in 1..Len(keys) |->
                                Field(keys[i], Some(to_vec(v.o[keys[i]])), FALSE)])
    ELSE IF v.j = "array" THEN SerializeSeq([i \in 1..Len(v.a) |-> to_vec(v.a[i])])
    ELSE <<Scalar(v)>>

\* The header every interaction carries, with a data object that fits each
\* of the three data structs.
BaseDoc ==
    [ id |-> JString(S_ID), application_id |-> JString(S_ID), token |-> JString(S_TOKEN),
      version |-> JPosInt(1), data |-> JObject(UniversalData) ]

PingDoc == JObject(With(BaseDoc, "type", Some(JPosInt(1))))

BodyDocs ==
    { JObject(With(With(BaseDoc, "type", t), "data", d)) :
        t \in {None} \cup {Some(JPosInt(n)) : n \in {1, 2, 3, 4, 5, 99}},
        d \in {None, Some(JObject(UniversalData))} }

\* A body of one byte.
S_MOVED == <<"9">>

\* Well-formed documents, and texts that are not JSON: nothing, an open
\* brace, a document followed by a stray brace, a lone byte.
BodySamples ==
    {to_vec(doc) : doc \in BodyDocs}
    \cup {<<>>, <<Punct("{")>>, to_vec(PingDoc) \o <<Punct("}")>>, as_bytes(S_MOVED)}

S_TIMESTAMP == <<"1", "6", "8">>
S_OTHER_TIMESTAMP == <<"1", "6", "9">>

\* No header, a timestamp, and that timestamp followed by the bytes of the
\* body S_MOVED.
TimestampSamples == {None, Some(S_TIMESTAMP), Some(S_TIMESTAMP \o S_MOVED)}

\* The body with its last byte replaced by another one.
Tampered(body) ==
    IF body = <<>> THEN body
    ELSE [body EXCEPT ![Len(body)] = [t |-> "byte", c |-> "x"]]

\* What X-Signature-Ed25519 holds for a request with this timestamp and body:
\* nothing, hex of odd length, a non-hex character, too few bytes, Discord's
\* signature over this request, Discord's signature over a timestamp or a
\* body that differs in one byte, somebody else's signature over this request.
SignatureSamples(ts, body) ==
    LET message == as_bytes(IF ts.some THEN ts.v ELSE S_TIMESTAMP) \o body
        nothing == [signer |-> "nobody", msg |-> <<>>]
    IN  { None,
          Some(HexString(2 * SIGNATURE_LENGTH - 1, TRUE, nothing)),
          Some(HexString(2 * SIGNATURE_LENGTH, FALSE, nothing)),
          Some(hex_encode(Bytes(10, nothing))),
          Some(hex_encode(Sign("discord", message))),
          Some(hex_encode(Sign("discord", as_bytes(S_OTHER_TIMESTAMP) \o body))),
          Some(hex_encode(Sign("discord", as_bytes(S_TIMESTAMP) \o Tampered(body)))),
          Some(hex_encode(Sign("attacker", message))) }

RequestSamples ==
    UNION { { [ headers |-> [signature |-> sg, timestamp |-> ts],
                body |-> b, body_used |-> used ] :
              sg \in SignatureSamples(ts, b), used \in BOOLEAN } :
            ts \in TimestampSamples, b \in BodySamples }

\* DISCORD_PUBLIC_KEY: not bound, Discord's key in hex, the same with a
\* character missing or spoilt, or 32 bytes that are no key.
EnvSamples ==
    { [secret |-> Err("binding not found")],
      [secret |-> Ok(hex_encode(Bytes(PUBLIC_KEY_LENGTH, "discord")))],
      [secret |-> Ok(HexString(2 * PUBLIC_KEY_LENGTH - 1, TRUE, "discord"))],
      [secret |-> Ok(HexString(2 * PUBLIC_KEY_LENGTH, FALSE, "discord"))],
      [secret |-> Ok(hex_encode(Bytes(PUBLIC_KEY_LENGTH, "garbage")))] }

\* What a handler method may return: any response, or an error.
HandlerResults ==
    {Ok([variant |-> v]) : v \in Payloadless}
    \cup {Ok(respond_with_embed(EmptyEmbed)),
          Ok([variant |-> "UpdateMessage", data |-> respond_with_embed(EmptyEmbed).data]),
          Ok([variant |-> "ApplicationCommandAutocompleteResult", data |-> [choices |-> <<>>]]),
          Err("handler error")}
    \cup {Ok([variant |-> "Modal", data |-> d]) :
            d \in {m \in ModalCallbackDataSamples : ~m.tts.some /\ ~m.components.some}}

\* CloudflareInteractionBot::new(req, env)
Init ==
    /\ req \in RequestSamples
    /\ env \in EnvSamples
    /\ handler = None
    /\ pc = "new"
    /\ bytes = None /\ validation = None /\ interaction = None
    /\ interaction_response = None /\ result = None /\ handler_calls = <<>>
    /\ SnowflakeIdle /\ DecodeIdle /\ EncodeIdle
    /\ LibIdle

\* bot.with_handler(handler)
with_handler ==
    /\ pc = "new"
    /\ ~handler.some
    /\ handler' = Some("handler")
    /\ UNCHANGED <<req, env, pc, bytes, validation, interaction, interaction_response,
                   result, handler_calls>>
    /\ UNCHANGED <<snowflakeVars, decodeVars, encodeVars, libVars>>

\* let bytes = self.req.bytes().await?;  Request::bytes fails with BodyUsed
\* on a request whose body was read before.
ProcessBytes ==
    /\ pc = "new"
    /\ IF req.body_used
       THEN result' = Some(Err("BodyUsed")) /\ pc' = "done" /\ UNCHANGED bytes
       ELSE bytes' = Some(req.body) /\ pc' = "validate" /\ UNCHANGED result
    /\ UNCHANGED <<req, env, handler, validation, interaction, interaction_response,
                   handler_calls>>
    /\ UNCHANGED <<snowflakeVars, decodeVars, encodeVars, libVars>>

\* The validation step going on to the decode step after a ValidationError.
ProcessValidate_no_return ==
    /\ pc = "validate"
    /\ LET v == validate_request(env, req.headers, bytes.v)
       IN  /\ validation' = Some(v)
           /\ IF v.ok \/ (~v.panic /\ v.err = "ValidationError")
              THEN pc' = "decode" /\ UNCHANGED result
              ELSE /\ pc' = "done"
                   /\ result' = Some(
                         IF v.panic THEN v
                         ELSE IF v.err = "ValidationError"
                              THEN Response_error("Validation failed", 401)
                         ELSE IF v.err = "WorkerError" THEN Err("WorkerError")
                         ELSE Response_error("Unknown error", 500))
    /\ UNCHANGED <<req, env, handler, bytes, interaction, interaction_response, handler_calls>>
    /\ UNCHANGED <<snowflakeVars, decodeVars, encodeVars, libVars>>

\* let validation = validate_request(...); if let Err(err) = validation { ... }
ProcessValidate ==
    /\ pc = "validate"
    /\ LET v == validate_request(env, req.headers, bytes.v)
       IN  /\ validation' = Some(v)
           /\ IF v.ok
              THEN pc' = "decode" /\ UNCHANGED result
              ELSE /\ pc' = "done"
                   /\ result' = Some(
                         IF v.panic THEN v
                         ELSE IF v.err = "ValidationError"
                              THEN Response_error("Validation failed", 401)
                         ELSE IF v.err = "WorkerError" THEN Err("WorkerError")
                         ELSE Response_error("Unknown error", 500))
    /\ UNCHANGED <<req, env, handler, bytes, interaction, interaction_response, handler_calls>>
    /\ UNCHANGED <<snowflakeVars, decodeVars, encodeVars, libVars>>

\* let interaction: Interaction = serde_json::from_slice(&bytes)?;
ProcessDecode ==
    /\ pc = "decode"
    /\ interaction' = Some(from_slice(bytes.v))
    /\ IF interaction'.v.ok THEN pc' = "dispatch" /\ UNCHANGED result
       ELSE /\ pc' = "done"
            /\ result' = Some(IF interaction'.v.panic THEN interaction'.v
                              ELSE Err("SerdeJsonError"))
    /\ UNCHANGED <<req, env, handler, bytes, validation, interaction_response, handler_calls>>
    /\ UNCHANGED <<snowflakeVars, decodeVars, encodeVars, libVars>>

\* The match on the interaction, up to the handler's await or to its value.
ProcessDispatch ==
    /\ pc = "dispatch"
    /\ LET d == dispatch(interaction.v.v, handler)
       IN  CASE d.kind = "ready" ->
                  /\ interaction_response' = Some(d.value)
                  /\ pc' = "respond"
                  /\ UNCHANGED <<result, handler_calls>>
             [] d.kind = "call" ->
                  /\ handler_calls' = Append(handler_calls, d.method)
                  /\ pc' = "await"
                  /\ UNCHANGED <<result, interaction_response>>
             [] d.kind = "panic" ->
                  /\ result' = Some(Panic("not yet implemented"))
                  /\ pc' = "done"
                  /\ UNCHANGED <<interaction_response, handler_calls>>
    /\ UNCHANGED <<req, env, handler, bytes, validation, interaction>>
    /\ UNCHANGED <<snowflakeVars, decodeVars, encodeVars, libVars>>

\* CloudflareCommandHandler::command returns.
HandlerCommand ==
    /\ pc = "await"
    /\ handler_calls[Len(handler_calls)] = "command"
    /\ \E r \in HandlerResults : interaction_response' = Some(r)
    /\ pc' = "respond"
    /\ UNCHANGED <<req, env, handler, bytes, validation, interaction, result, handler_calls>>
    /\ UNCHANGED <<snowflakeVars, decodeVars, encodeVars, libVars>>

\* CloudflareCommandHandler::component returns.
HandlerComponent ==
    /\ pc = "await"
    /\ handler_calls[Len(handler_calls)] = "component"
    /\ \E r \in HandlerResults : interaction_response' = Some(r)
    /\ pc' = "respond"
    /\ UNCHANGED <<req, env, handler, bytes, validation, interaction, result, handler_calls>>
    /\ UNCHANGED <<snowflakeVars, decodeVars, encodeVars, libVars>>

\* The last match returning a handler's error to the caller of process().
ProcessRespond_propagates ==
    /\ pc = "respond"
    /\ result' = Some(IF interaction_response.v.ok
                      THEN Response_from_json(interaction_response.v.v)
                      ELSE interaction_response.v)
    /\ pc' = "done"
    /\ UNCHANGED <<req, env, handler, bytes, validation, interaction, interaction_response,
                   handler_calls>>
    /\ UNCHANGED <<snowflakeVars, decodeVars, encodeVars, libVars>>

\* The last match answering a handler's error with status 500.
ProcessRespond_internal_error ==
    /\ pc = "respond"
    /\ result' = Some(IF interaction_response.v.ok
                      THEN Response_from_json(interaction_response.v.v)
                      ELSE Response_error("Unknown error", 500))
    /\ pc' = "done"
    /\ UNCHANGED <<req, env, handler, bytes, validation, interaction, interaction_response,
                   handler_calls>>
    /\ UNCHANGED <<snowflakeVars, decodeVars, encodeVars, libVars>>

\* match interaction_response { Ok(r) => Response::from_json(&r), Err(e) => ... }
ProcessRespond ==
    /\ pc = "respond"
    /\ result' = Some(IF interaction_response.v.ok
                      THEN Response_from_json(interaction_response.v.v)
                      ELSE Response_error("Unknown error", 400))
    /\ pc' = "done"
    /\ UNCHANGED <<req, env, handler, bytes, validation, interaction, interaction_response,
                   handler_calls>>
    /\ UNCHANGED <<snowflakeVars, decodeVars, encodeVars, libVars>>

Next ==
    \/ with_handler
    \/ ProcessBytes
    \/ ProcessValidate
    \/ ProcessDecode
    \/ ProcessDispatch
    \/ HandlerCommand
    \/ HandlerComponent
    \/ ProcessRespond

Spec == Init /\ [][Next]_vars

\* Both signature headers are there and DISCORD_PUBLIC_KEY is bound.
Checkable ==
    /\ req.headers.signature.some
    /\ req.headers.timestamp.some
    /\ env.secret.ok

\* The request is what it claims to be: the bound secret is the hex of a
\* 32-byte public key, and the signature header is the hex of 64 bytes that
\* the holder of that key made over the timestamp followed by the body.
Authentic ==
    /\ Checkable
    /\ env.secret.v.len = 2 * PUBLIC_KEY_LENGTH
    /\ env.secret.v.valid
    /\ env.secret.v.data \in KeyPairs
    /\ req.headers.signature.v.len = 2 * SIGNATURE_LENGTH
    /\ req.headers.signature.v.valid
    /\ req.headers.signature.v.data.signer = env.secret.v.data
    /\ req.headers.signature.v.data.msg = as_bytes(req.headers.timestamp.v) \o req.body

\* C2: the body is decoded only once validate_request has returned Ok, which
\* it does only for an authentic request; after a failed verification the
\* body is never decoded and no handler is called.
C2_VerifyBeforeDecode ==
    /\ (pc \in {"decode", "dispatch", "await", "respond"} \/ interaction.some
        \/ handler_calls /= <<>>)
          => (validation.some /\ validation.v.ok /\ Authentic)
    /\ (validation.some /\ ~validation.v.ok)
          => (pc = "done" /\ ~interaction.some /\ handler_calls = <<>>)

\* A verified command was decoded and handed to the handler.
C2_Witness ==
    /\ validation.some /\ validation.v.ok
    /\ interaction.some /\ interaction.v.ok
    /\ handler_calls = <<"command">>

\* C3: a request that can be checked and is not authentic, whether because
\* the key or the signature is not hex or because the signature does not
\* verify, ends with Error::ValidationError and the response 401
\* "Validation failed", the same for every cause.
C3_SingleFailureKind ==
    (pc = "done" /\ ~req.body_used /\ Checkable /\ ~Authentic) =>
        /\ validation = Some(Err("ValidationError"))
        /\ result = Some(Ok([status |-> 401,
                             body |-> [kind |-> "text", text |-> "Validation failed"]]))

\* A request whose signature header is hex of odd length was answered 401.
C3_Witness ==
    /\ pc = "done"
    /\ ~req.body_used
    /\ Checkable
    /\ req.headers.signature.v.len % 2 = 1
    /\ env.secret.v.len = 2 * PUBLIC_KEY_LENGTH /\ env.secret.v.valid
    /\ result.v.ok
    /\ result.v.v.status = 401

\* C4: a verified request whose body does not decode as an Interaction is
\* answered with an HTTP 400 response.
C4_DecodeFailureIs400 ==
    (pc = "done" /\ interaction.some /\ ~interaction.v.ok) =>
        (result.v.ok /\ result.v.v.status = 400)

\* C9: a verified Ping ends with the response 200 {"type":1} and no handler
\* method called, with or without a handler.
C9_PingPong ==
    (interaction.some /\ interaction.v.ok /\ interaction.v.v.variant = "Ping") =>
        /\ handler_calls = <<>>
        /\ pc /= "await"
        /\ pc = "done" =>
              result = Some(Ok([status |-> 200,
                                body |-> [kind |-> "json", json |-> TypeOnlyText(1)]]))

\* A bot with a handler answered the ping document with 200.
C9_Witness ==
    /\ pc = "done"
    /\ handler.some
    /\ req.body = to_vec(PingDoc)
    /\ result.v.ok
    /\ result.v.v.status = 200
    /\ handler_calls = <<>>

\* The JSON body of the response process() returned.
ResultJson == ParseValue(result.v.v.body.json, 1)

\* C10: without a handler, a verified ApplicationCommand or MessageComponent
\* ends with the response 200 whose body has type 4 and a data object with
\* exactly one embed, the diagnostic one.
C10_NoHandlerFallback ==
    (pc = "done" /\ ~handler.some /\ interaction.some /\ interaction.v.ok
     /\ interaction.v.v.variant \in {"ApplicationCommand", "MessageComponent"}) =>
        /\ result.v.ok
        /\ result.v.v.status = 200
        /\ result.v.v.body.kind = "json"
        /\ ResultJson.ok
        /\ ResultJson.v.o["type"] = JPosInt(4)
        /\ DOMAIN ResultJson.v.o["data"].o = {"embeds"}
        /\ Len(ResultJson.v.o["data"].o["embeds"].a) = 1
        /\ ResultJson.v.o["data"].o["embeds"].a[1].o["title"] =
              JString(IF interaction.v.v.variant = "ApplicationCommand"
                      THEN <<"No command handler">> ELSE <<"No component handler">>)
        /\ ResultJson.v.o["data"].o["embeds"].a[1].o["color"] = JPosInt(NO_HANDLER_COLOR)

\* A component interaction met no handler and was answered 200.
C10_Witness ==
    /\ pc = "done"
    /\ ~handler.some
    /\ interaction.some /\ interaction.v.ok
    /\ interaction.v.v.variant = "MessageComponent"
    /\ result.v.ok
    /\ result.v.v.status = 200

\* C11: a verified request that decodes to an interaction, whatever its kind
\* (Ping, ApplicationCommand, MessageComponent, ApplicationCommandAutocomplete,
\* ModalSubmit), ends in a terminal state with a response returned; it never
\* ends in a crash.
C11_EveryKindEndsResponded ==
    (pc = "done" /\ interaction.some /\ interaction.v.ok) =>
        (result.some /\ ~result.v.panic /\ result.v.ok)

\* C12: a request without X-Signature-Ed25519 or without X-Signature-Timestamp
\* is rejected before the signature is verified, and the rejection is an
\* error value returned by validate_request, not a panic.
C12_MissingHeaderIsError ==
    (validation.some /\ (~req.headers.signature.some \/ ~req.headers.timestamp.some)) =>
        /\ ~validation.v.ok
        /\ ~validation.v.panic
        /\ pc = "done"
        /\ ~result.v.panic

C14_OneHandlerCall ==
    /\ Len(handler_calls) <= 1
    /\ pc = "await" =>
          (Len(handler_calls) = 1 /\ ~interaction_response.some /\ ~result.some)
    /\ (handler_calls /= <<>> /\ result.some) => interaction_response.some
    /\ handler_calls /= <<>> =>
          /\ handler.some
          /\ interaction.v.v.variant \in {"ApplicationCommand", "MessageComponent"}
    /\ (pc \in {"await", "respond", "done"} /\ handler.some
        /\ interaction.some /\ interaction.v.ok
        /\ interaction.v.v.variant \in {"ApplicationCommand", "MessageComponent"}) =>
          handler_calls = << IF interaction.v.v.variant = "ApplicationCommand"
                             THEN "command" ELSE "component" >>

\* A component interaction was handed to handler.component, which returned,
\* and the response was encoded afterwards.
C14_Witness ==
    /\ pc = "done"
    /\ handler_calls = <<"component">>
    /\ interaction_response.some /\ interaction_response.v.ok
    /\ result.v.ok
    /\ result.v.v.status = 200

\* Two byte strings of one length that differ at exactly one position.
OneByteChanged(a, b) ==
    /\ Len(a) = Len(b)
    /\ Cardinality({i \in 1..Len(a) : a[i] /= b[i]}) = 1

\* The signature header is the hex of a signature Discord's key made, and
\* DISCORD_PUBLIC_KEY is the hex of that key.
SignedByDiscord ==
    /\ Checkable
    /\ env.secret.v = hex_encode(Bytes(PUBLIC_KEY_LENGTH, "discord"))
    /\ req.headers.signature.v.len = 2 * SIGNATURE_LENGTH
    /\ req.headers.signature.v.valid
    /\ req.headers.signature.v.data.signer = "discord"

\* C15: a signature made with the matching private key over the timestamp
\* followed by the body verifies; when one byte of the timestamp or of the
\* body differs from what was signed, verification fails.
C15_SignatureAcceptReject ==
    (validation.some /\ SignedByDiscord) =>
        /\ req.headers.signature.v.data.msg = as_bytes(req.headers.timestamp.v) \o req.body
              => validation = Some(Ok(TRUE))
        /\ OneByteChanged(req.headers.signature.v.data.msg,
                          as_bytes(req.headers.timestamp.v) \o req.body)
              => validation = Some(Err("ValidationError"))

\* A request whose body differs in its last byte from the signed one was
\* refused.
C15_Witness ==
    /\ validation = Some(Err("ValidationError"))
    /\ SignedByDiscord
    /\ req.body /= <<>>
    /\ req.headers.signature.v.data.msg = as_bytes(req.headers.timestamp.v) \o Tampered(req.body)

\* C16: a data option of type 2 (SubcommandGroup) decodes successfully only
\* when every element of its options array is an option of type 1
\* (Subcommand).
C16_GroupChildrenAllSubcommands ==
    (decoded.family = "ApplicationCommandInteractionDataOption" /\ WireType = 2
     /\ decoded.result.ok) =>
        /\ "options" \in DOMAIN json.o
        /\ json.o["options"].j = "array"
        /\ \A i \in 1..Len(json.o["options"].a) :
              json.o["options"].a[i].o["type"] = JPosInt(1)

\* The number written by the n bits of x from bit lo (1 = least significant) up.
RECURSIVE BitsValue(_, _, _)
BitsValue(x, lo, n) ==
    IF n = 0 THEN 0 ELSE x[lo] + 2 * BitsValue(x, lo + 1, n - 1)

\* C17: for every raw, from_u64(raw) has timestamp = (raw >> 22) +
\* 1420070400000 computed without overflow, worker_id = bits 17..21 of raw,
\* process_id = bits 12..16, increment = bits 0..11, hence worker_id and
\* process_id within 0..31 and increment within 0..4095; the id
\* 282265607313817601 has timestamp 1487367765025.
C17_FromU64Fields ==
    sf.some =>
        /\ ~SubUnderflows(sf.v.timestamp, DISCORD_EPOCH)
        /\ WrappingSub(sf.v.timestamp, DISCORD_EPOCH) =
              [i \in 1..U64_BITS |-> IF i <= 42 THEN raw[i + 22] ELSE 0]
        /\ sf.v.worker_id = BitsValue(raw, 18, 5)
        /\ sf.v.internal_process_id = BitsValue(raw, 13, 5)
        /\ sf.v.increment = BitsValue(raw, 1, 12)
        /\ sf.v.worker_id \in 0..31
        /\ sf.v.internal_process_id \in 0..31
        /\ sf.v.increment \in 0..4095
        /\ raw = TestSnowflake =>
              sf.v.timestamp = U64OfLimbs(<<64545, 19974, 346, 0>>)

\* The raw value with every bit set was decoded: worker 31, process 31,
\* increment 4095.
C17_Witness ==
    /\ sf.some
    /\ raw = AllOnes
    /\ sf.v.worker_id = 31
    /\ sf.v.internal_process_id = 31
    /\ sf.v.increment = 4095

(***************************************************************************)
(* The public interface of Snowflake (models/src/common/snowflake.rs): the *)
(* constructors, the public field timestamp, and the traits built on       *)
(* to_u64.                                                                 *)
(***************************************************************************)
\* impl Serialize for Snowflake under serde_json::to_string: one JSON string.
SerializeSnowflake(s, checks) ==
    AndThen(Snowflake_to_string(s, checks), LAMBDA d : Ok(<<Scalar(JString(d))>>))

S_ZERO == <<"0">>
S_TEST_ID == <<"2", "8", "2", "2", "6", "5", "6", "0", "7", "3", "1", "3", "8", "1", "7", "6", "0", "1">>
S_U64_MAX == <<"1", "8", "4", "4", "6", "7", "4", "4", "0", "7", "3", "7", "0", "9", "5", "5", "1", "6", "1", "5">>
S_U64_MAX_PLUS_ONE == <<"1", "8", "4", "4", "6", "7", "4", "4", "0", "7", "3", "7", "0", "9", "5", "5", "1", "6", "1", "6">>

\* Canonical decimals of a u64, and strings that are not: a sign, a leading
\* zero, nothing, a letter, 2^64.
CanonicalSamples == {S_ZERO, S_TEST_ID, S_U64_MAX}
StrSamples ==
    CanonicalSamples \cup {<<"+", "5">>, <<"0", "0", "7">>, <<>>, <<"1", "a">>, S_U64_MAX_PLUS_ONE}

\* JSON texts handed to serde_json::from_str::<Snowflake>: a string, or a number.
WireSamples == {<<Scalar(JString(x))>> : x \in StrSamples} \cup {<<Scalar(JPosInt(5))>>}

ApiRawSamples == {U64Of(0), TestSnowflake, AllOnes}

\* Values assigned to the public field: 0, the timestamp of the test id, and
\* DISCORD_EPOCH + 2^42.
AssignSamples ==
    { U64Of(0), U64OfLimbs(<<64545, 19974, 346, 0>>),
      WrappingAdd(DISCORD_EPOCH, Shl(U64Of(1), 42)) }

InitSnowflakeApi ==
    /\ raw \in ApiRawSamples
    /\ sf = None
    /\ encoded = None
    /\ wire = None /\ other = None /\ cmp = NoComparison
    /\ DecodeIdle
    /\ EncodeIdle
    /\ BotIdle
    /\ LibIdle

\* let snowflake = Snowflake::default()
SnowflakeDefault ==
    /\ ~sf.some
    /\ sf' = Some(Default)
    /\ UNCHANGED <<raw, encoded, wire, other, cmp, decodeVars, encodeVars, botVars, libVars>>

\* let snowflake = Snowflake::from_str(s)?
FromStr ==
    /\ ~sf.some
    /\ \E x \in StrSamples : from_str(x).ok /\ sf' = Some(from_str(x).v)
    /\ UNCHANGED <<raw, encoded, wire, other, cmp, decodeVars, encodeVars, botVars, libVars>>

\* snowflake.timestamp = t, before anything is computed from the value.
AssignTimestamp ==
    /\ sf.some
    /\ ~encoded.some /\ ~wire.some /\ cmp = NoComparison
    /\ \E t \in AssignSamples : sf' = Some([sf.v EXCEPT !.timestamp = t])
    /\ UNCHANGED <<raw, encoded, wire, other, cmp, decodeVars, encodeVars, botVars, libVars>>

\* serde_json::to_string(&snowflake)
Serialize ==
    /\ sf.some
    /\ ~wire.some
    /\ \E checks \in BOOLEAN : wire' = Some(SerializeSnowflake(sf.v, checks))
    /\ UNCHANGED <<raw, sf, encoded, other, cmp, decodeVars, encodeVars, botVars, libVars>>

\* serde_json::from_str::<Snowflake>(text), on a sampled text or on the one
\* just written.
Deserialize ==
    /\ ~other.some
    /\ \E ts \in WireSamples \cup (IF wire.some /\ wire.v.ok THEN {wire.v.v} ELSE {}) :
          other' = Some([ text |-> ts,
                          r |-> IF ParseValue(ts, 1).ok /\ ParseValue(ts, 1).next > Len(ts)
                                THEN DeserializeSnowflake(ParseValue(ts, 1).v)
                                ELSE Err("syntax error") ])
    /\ UNCHANGED <<raw, sf, encoded, wire, cmp, decodeVars, encodeVars, botVars, libVars>>

\* snowflake == other
Eq ==
    /\ sf.some
    /\ other.some /\ other.v.r.ok
    /\ ~cmp.eq.some
    /\ cmp' = [cmp EXCEPT !.eq = Some(eq(sf.v, other.v.r.v))]
    /\ UNCHANGED <<raw, sf, encoded, wire, other, decodeVars, encodeVars, botVars, libVars>>

\* snowflake.hash(&mut h1); other.hash(&mut h2)
Hash ==
    /\ sf.some
    /\ other.some /\ other.v.r.ok
    /\ ~cmp.hash.some
    /\ \E checks \in BOOLEAN :
          cmp' = [cmp EXCEPT !.hash = Some(<<hash(sf.v, checks), hash(other.v.r.v, checks)>>)]
    /\ UNCHANGED <<raw, sf, encoded, wire, other, decodeVars, encodeVars, botVars, libVars>>

NextSnowflakeApi ==
    \/ FromU64
    \/ SnowflakeDefault
    \/ FromStr
    \/ AssignTimestamp
    \/ ToU64
    \/ Serialize
    \/ Deserialize
    \/ Eq
    \/ Hash

SpecSnowflakeApi == InitSnowflakeApi /\ [][NextSnowflakeApi]_vars

\* C18: every Snowflake obtained through from_u64, from_str, Default,
\* deserialization or an assignment to the public field timestamp has
\* timestamp >= DISCORD_EPOCH, so that timestamp - DISCORD_EPOCH does not
\* underflow in to_u64, Hash, to_string or Serialize.
C18_TimestampNotBelowEpoch ==
    /\ sf.some => ~to_u64_underflows(sf.v)
    /\ (other.some /\ other.v.r.ok) => ~to_u64_underflows(other.v.r.v)
    /\ encoded.some => ~encoded.panic
    /\ wire.some => ~wire.v.panic
    /\ cmp.hash.some => (~cmp.hash.v[1].panic /\ ~cmp.hash.v[2].panic)

\* C19: for two Snowflake values a and b, a == b exactly when a.to_u64() ==
\* b.to_u64(), and when a == b the two feed the hasher the same value.
C19_EqAgreesWithU64AndHash ==
    /\ cmp.eq.some => (cmp.eq.v <=> to_u64(sf.v) = to_u64(other.v.r.v))
    /\ (cmp.eq.some /\ cmp.eq.v /\ cmp.hash.some) => cmp.hash.v[1] = cmp.hash.v[2]

\* C20: a Snowflake serializes to one JSON string of decimal digits, never a
\* number; deserializing that text gives a Snowflake equal to the one
\* serialized; and the Snowflake deserialized from the canonical decimal s of
\* a u64 has to_string() = s.
C20_JsonStringRoundTrip ==
    /\ wire.some =>
          /\ wire.v.ok
          /\ Len(wire.v.v) = 1
          /\ wire.v.v[1].t = "scalar"
          /\ wire.v.v[1].v.j = "string"
          /\ wire.v.v[1].v.s /= <<>>
          /\ \A i \in 1..Len(wire.v.v[1].v.s) :
                \E k \in 1..10 : wire.v.v[1].v.s[i] = Digits[k]
    /\ (wire.some /\ wire.v.ok /\ other.some /\ other.v.text = wire.v.v) =>
          /\ other.v.r.ok
          /\ cmp.eq.some => cmp.eq.v
    /\ (other.some /\ \E x \in CanonicalSamples : other.v.text = <<Scalar(JString(x))>>) =>
          /\ other.v.r.ok
          /\ Snowflake_to_string(other.v.r.v, TRUE) = Ok(other.v.text[1].v.s)

\* x is not above y, for two digit strings of one length.
RECURSIVE DigitsAtMost(_, _)
DigitsAtMost(x, y) ==
    IF x = <<>> THEN TRUE
    ELSE IF Head(x) /= Head(y)
         THEN (CHOOSE i \in 1..10 : Digits[i] = Head(x)) < (CHOOSE i \in 1..10 : Digits[i] = Head(y))
         ELSE DigitsAtMost(Tail(x), Tail(y))

\* s is the decimal notation of a u64: one or more digits and nothing else,
\* naming a number not above 18446744073709551615.
ValidDecimal(s) ==
    /\ s /= <<>>
    /\ \A i \in 1..Len(s) : \E k \in 1..10 : s[i] = Digits[k]
    /\ \/ Len(s) < Len(S_U64_MAX)
       \/ Len(s) = Len(S_U64_MAX) /\ DigitsAtMost(s, S_U64_MAX)

\* C21: a JSON string that is not the decimal notation of a u64 (empty, holding
\* a character that is no digit, or naming a number above 2^64-1) does not
\* deserialize to a Snowflake, and a data option whose Snowflake value is such a
\* string does not decode.
C21_MalformedIdFails ==
    /\ (other.some /\ other.v.text[1].v.j = "string" /\ ~ValidDecimal(other.v.text[1].v.s))
          => (~other.v.r.ok /\ ~other.v.r.panic)
    /\ (decoded.family = "ApplicationCommandInteractionDataOption" /\ WireType \in 6..9
        /\ "value" \in DOMAIN json.o /\ json.o["value"].j = "string"
        /\ ~ValidDecimal(json.o["value"].s))
          => (~decoded.result.ok /\ ~decoded.result.panic)

(***************************************************************************)
(* Re-serializing a decoded command (commands/src/command/model.rs,        *)
(* models/src/common/type_field.rs)                                        *)
(***************************************************************************)
\* impl Serialize for TypeField<T>: serializer.serialize_u8(T).
SerializeTypeField(T) == <<Scalar(JPosInt(T))>>

\* #[derive(Serialize)] #[serde(untagged)] on ApplicationCommand and
\* ApplicationCommandOption: the inner struct alone, its pinned t written
\* under "type".  Of the other members the decoded values of this model carry
\* the name only.
SerializeCommand(c) ==
    SerializeStruct(<< Field("type", Some(SerializeTypeField(c.inner.t)), FALSE),
                       Field("name", Some(<<Scalar(JString(c.inner.name))>>), FALSE) >>)

\* serde_json::to_string(&command) on a decoded command or command option
SerializeCommandToString ==
    /\ decoded.family \in {"ApplicationCommand", "ApplicationCommandOption"}
    /\ decoded.result.ok
    /\ ~text.some
    /\ text' = Some(Ok(SerializeCommand(decoded.result.v)))
    /\ UNCHANGED <<response, decodeVars, snowflakeVars, botVars, libVars>>

NextDecode ==
    \/ DecodeInteraction
    \/ DecodeApplicationCommand
    \/ DecodeApplicationCommandOption
    \/ DecodeComponent
    \/ DecodeDataOption
    \/ SerializeCommandToString

SpecDecode == InitDecode /\ [][NextDecode]_vars

\* Command and command option discriminants of the wire protocol.
CommandVariantOf(n) ==
    CASE n = 1 -> "ChatInputCommand"
      [] n = 2 -> "UserCommand"
      [] n = 3 -> "MessageCommand"
      [] OTHER -> "none"

CommandOptionVariantOf(n) ==
    CASE n = 1 -> "Subcommand"
      [] n = 2 -> "SubcommandGroup"
      [] n = 3 -> "String"
      [] n = 4 -> "Integer"
      [] n = 5 -> "Boolean"
      [] n = 6 -> "User"
      [] n = 7 -> "Channel"
      [] n = 8 -> "Role"
      [] n = 9 -> "Mentionable"
      [] n = 10 -> "Number"
      [] n = 11 -> "Attachment"
      [] OTHER -> "none"

\* C22: a decoded ApplicationCommand is ChatInput, User or Message for type 1,
\* 2, 3, a decoded ApplicationCommandOption is the variant of its type 1..11,
\* the pinned TypeField of the decoded value is the wire discriminant, and
\* serializing the decoded value writes that discriminant under "type".
C22_TypePinnedAndReemitted ==
    /\ (decoded.family = "ApplicationCommand" /\ decoded.result.ok) =>
          /\ WireType \in 1..3
          /\ decoded.result.v.variant = CommandVariantOf(WireType)
          /\ decoded.result.v.inner.t = WireType
    /\ (decoded.family = "ApplicationCommandOption" /\ decoded.result.ok) =>
          /\ WireType \in 1..11
          /\ decoded.result.v.variant = CommandOptionVariantOf(WireType)
          /\ decoded.result.v.inner.t = WireType
    /\ (decoded.family \in {"ApplicationCommand", "ApplicationCommandOption"} /\ text.some) =>
          /\ text.v.ok
          /\ ParseValue(text.v.v, 1).ok
          /\ ParseValue(text.v.v, 1).v.j = "object"
          /\ "type" \in DOMAIN ParseValue(text.v.v, 1).v.o
          /\ ParseValue(text.v.v, 1).v.o["type"] = json.o["type"]

\* A body of type 3 was decoded as an ApplicationCommand, came out as
\* MessageCommand, and was serialized again.
C22_Witness ==
    /\ decoded.family = "ApplicationCommand"
    /\ WireType = 3
    /\ decoded.result.ok
    /\ decoded.result.v.variant = "MessageCommand"
    /\ text.some

\* C26: decoding a data option of type 2 (SubcommandGroup) whose options array
\* is empty returns an error and does not panic.
C26_EmptyGroupIsError ==
    (/\ decoded.family = "ApplicationCommandInteractionDataOption"
     /\ WireType = 2
     /\ "options" \in DOMAIN json.o
     /\ json.o["options"] = JArray(<<>>))
        => (~decoded.result.ok /\ ~decoded.result.panic)

\* C27: the verified message is the timestamp bytes followed by the body bytes
\* and nothing else, so a signature Discord made over t followed by b is
\* accepted for every timestamp and body with the same concatenation, and
\* validate_request gives one result for all of them.
C27_ConcatenationDecides ==
    (validation.some /\ req.headers.timestamp.some) =>
        \A t \in {x.v : x \in TimestampSamples \ {None}}, b \in BodySamples :
            as_bytes(t) \o b = as_bytes(req.headers.timestamp.v) \o req.body =>
                /\ validate_request(env, [signature |-> req.headers.signature,
                                          timestamp |-> Some(t)], b) = validation.v
                /\ (SignedByDiscord /\ req.headers.signature.v.data.msg = as_bytes(t) \o b)
                      => validation = Some(Ok(TRUE))

\* Discord signed the timestamp 168 with the body 9; the request carries the
\* timestamp 1689 with an empty body, and was accepted.
C27_Witness ==
    /\ validation = Some(Ok(TRUE))
    /\ SignedByDiscord
    /\ req.headers.timestamp = Some(S_TIMESTAMP \o S_MOVED)
    /\ req.body = <<>>
    /\ req.headers.signature.v.data.msg = as_bytes(S_TIMESTAMP) \o as_bytes(S_MOVED)

\* C28: once a handler method has returned, process() returns a response: the
\* text "Unknown error" with status 400 when the handler returned an error,
\* which is not handed on, and status 200 with the JSON text of the handler's
\* InteractionResponse when it returned one.
C28_HandlerResultAnswered ==
    (pc = "done" /\ handler_calls /= <<>>) =>
        /\ interaction_response.some
        /\ ~interaction_response.v.ok =>
              result = Some(Ok([status |-> 400,
                                body |-> [kind |-> "text", text |-> "Unknown error"]]))
        /\ interaction_response.v.ok =>
              result = Some(Ok([status |-> 200,
                                body |-> [kind |-> "json",
                                          json |-> SerializeInteractionResponse(
                                                       interaction_response.v.v)]]))

\* handler.command returned an error, and the request was answered.
C28_Witness ==
    /\ pc = "done"
    /\ handler_calls = <<"command">>
    /\ interaction_response = Some(Err("handler error"))
    /\ result.some /\ result.v.ok

(***************************************************************************)
(* impl Deserialize for RoleTags (src/models/deserialize/role.rs).  The    *)
(* JSON object is the sequence of its members in document order, each a    *)
(* key k and a value v.                                                    *)
(***************************************************************************)
\* The locals of visit_map before the loop.
RoleTagsNew ==
    [ bot_id |-> None, integration_id |-> None, premium_subscriber |-> FALSE,
      subscription_listing_id |-> None, available_for_purchase |-> FALSE,
      guild_connections |-> FALSE ]

\* `_ = map.next_value()?;` names no type for the value, and the `?` makes the
\* compiler settle on the unit type, which serde_json reads from null alone.
next_value_unit(v) ==
    IF v.j = "null" THEN Ok(TRUE) ELSE Err("invalid type: expected unit")

\* map.next_value::<Option<Snowflake>>()
next_value_option_snowflake(v) ==
    IF v.j = "null" THEN Ok(None)
    ELSE AndThen(DeserializeSnowflake(v), LAMBDA x : Ok(Some(x)))

\* RoleTagsVisitor::visit_map: the while loop over the members that are left,
\* tags holding the locals.  A key outside FIELDS fails in Field's visitor.
RECURSIVE visit_map(_, _)
visit_map(map, tags) ==
    IF map = <<>> THEN Ok(tags)
    ELSE CASE Head(map).k \in {"available_for_purchase", "premium_subscriber",
                                "guild_connections"} ->
                AndThen(next_value_unit(Head(map).v), LAMBDA u :
                    visit_map(Tail(map), [tags EXCEPT ![Head(map).k] = TRUE]))
           [] Head(map).k \in {"bot_id", "integration_id", "subscription_listing_id"} ->
                AndThen(next_value_option_snowflake(Head(map).v), LAMBDA x :
                    visit_map(Tail(map), [tags EXCEPT ![Head(map).k] = x]))
           [] OTHER -> Err("unknown field")

\* Largest number of members of a sampled object.
MaxMembers == 3

\* A flag key with null or with true, bot_id with null or with an id.
MemberSamples ==
    { [k |-> k, v |-> v] :
        k \in {"premium_subscriber", "available_for_purchase", "guild_connections"},
        v \in {JNull, JBool(TRUE)} }
    \cup { [k |-> "bot_id", v |-> v] : v \in {JNull, JString(S_ID)} }

InitRoleTags ==
    /\ members \in UNION { [1..n -> MemberSamples] : n \in 0..MaxMembers }
    /\ role_tags = None
    /\ SnowflakeIdle /\ DecodeIdle /\ EncodeIdle /\ BotIdle
    /\ ConcurrentIdle /\ BuilderIdle /\ UpdateIdle

\* serde_json::from_str::<RoleTags>(json)
DecodeRoleTags ==
    /\ ~role_tags.some
    /\ role_tags' = Some(visit_map(members, RoleTagsNew))
    /\ UNCHANGED <<members, coreVars, bots, builderVars, updateVars>>

NextRoleTags == DecodeRoleTags

SpecRoleTags == InitRoleTags /\ [][NextRoleTags]_vars

\* The keys written in the object.
MemberKeys == {members[i].k : i \in 1..Len(members)}

\* C25: decoding RoleTags succeeds whatever values the three flag keys carry,
\* and sets each of premium_subscriber, available_for_purchase and
\* guild_connections to TRUE when its key is written in the object and to
\* FALSE when it is not, whatever the other keys and the order of the keys.
C25_FlagsFollowPresence ==
    role_tags.some =>
        /\ role_tags.v.ok
        /\ \A k \in {"premium_subscriber", "available_for_purchase", "guild_connections"} :
              role_tags.v.v[k] = (k \in MemberKeys)

(***************************************************************************)
(* The command builders (commands/src/command/builder.rs) and the          *)
(* constructors they call (commands/src/command/implementation.rs)         *)
(***************************************************************************)
\* ApplicationCommand::new_chat_input_command
new_chat_input_command(name, description, permissions, dm_permission, nsfw, options) ==
    [ variant |-> "ChatInputCommand",
      inner |-> [ details |-> [ t |-> 1, id |-> None, application_id |-> None,
                                guild_id |-> None, name |-> name,
                                name_localizations |-> None,
                                default_member_permissions |-> permissions,
                                dm_permission |-> dm_permission, nsfw |-> nsfw,
                                version |-> None ],
                  options |-> options,
                  description |-> description,
                  description_localizations |-> None ] ]

\* SubcommandBuilder::build_subcommand
build_subcommand(self) ==
    [ name |-> self.name, description |-> self.description, options |-> self.options,
      t |-> 1, description_localizations |-> None, name_localizations |-> None ]

\* ApplicationCommandOption::new_subcommand_option
new_subcommand_option(name, description, options) ==
    [ variant |-> "Subcommand",
      inner |-> [ name |-> name, description |-> description, options |-> options,
                  t |-> 1, name_localizations |-> None,
                  description_localizations |-> None ] ]

\* ApplicationCommandOption::new_subcommand_group_option
new_subcommand_group_option(name, description, options) ==
    [ variant |-> "SubcommandGroup",
      inner |-> [ name |-> name, description |-> description, options |-> options,
                  t |-> 2, name_localizations |-> None,
                  description_localizations |-> None ] ]

\* ApplicationCommandOption::new_string_option(name, description, None, ...)
new_string_option(name, description) ==
    [ variant |-> "String",
      inner |-> [ name |-> name, description |-> description, required |-> None,
                  choices |-> None, min_length |-> None, max_length |-> None,
                  autocomplete |-> None, t |-> 3, name_localizations |-> None,
                  description_localizations |-> None ] ]

\* CommandBuilder::new
CommandBuilder_new ==
    [ name |-> <<>>, description |-> <<>>, options |-> None,
      default_member_permissions |-> None, dm_permission |-> None ]

\* CommandBuilder::add_option putting the option in front of the others.
CommandBuilder_add_option_in_front(self, option) ==
    [self EXCEPT !.options = IF self.options.some
                             THEN Some(<<option>> \o self.options.v)
                             ELSE Some(<<option>>)]

\* CommandBuilder::add_option
CommandBuilder_add_option(self, option) ==
    [self EXCEPT !.options = IF self.options.some
                             THEN Some(Append(self.options.v, option))
                             ELSE Some(<<option>>)]

\* Most builder method calls in one run.
MaxCalls == 4

NameSamples == {<<"a">>, <<"b">>}
DescriptionSamples == {<<"d">>}
OptionSamples == {new_string_option(<<"o">>, <<"d">>)}

\* What a closure handed to add_subcommand returns.
SubcommandBuilderSamples == {[name |-> <<"s">>, description |-> <<"d">>, options |-> None]}

\* What a closure handed to add_subcommand_group returns.
SubcommandGroupBuilderSamples ==
    { [name |-> <<"g">>, description |-> <<"d">>, subcommands |-> s] :
        s \in {None} \cup {Some(<<build_subcommand(b)>>) : b \in SubcommandBuilderSamples} }

\* CommandsBuilder::new(Snowflake::default(), None)
InitBuilder ==
    /\ builder = Some([commands |-> <<>>, application_id |-> Default, guild_id |-> None])
    /\ command_builder = None
    /\ builder_calls = <<>>
    /\ built = None
    /\ SnowflakeIdle /\ DecodeIdle /\ EncodeIdle /\ BotIdle
    /\ ConcurrentIdle /\ RoleIdle /\ UpdateIdle

\* A builder method is called with the arguments arg.
Called(method, arg) ==
    /\ Len(builder_calls) < MaxCalls
    /\ builder_calls' = Append(builder_calls, [method |-> method, arg |-> arg])

\* CommandsBuilder::add_command up to the call of its closure.
AddCommand ==
    /\ builder.some /\ ~command_builder.some
    /\ Called("add_command", <<>>)
    /\ command_builder' = Some(CommandBuilder_new)
    /\ UNCHANGED <<builder, built, coreVars, bots, roleVars, updateVars>>

\* CommandBuilder::name, called in the closure
Name ==
    /\ command_builder.some
    /\ \E n \in NameSamples :
          /\ Called("name", n)
          /\ command_builder' = Some([command_builder.v EXCEPT !.name = n])
    /\ UNCHANGED <<builder, built, coreVars, bots, roleVars, updateVars>>

\* CommandBuilder::description, called in the closure
Description ==
    /\ command_builder.some
    /\ \E d \in DescriptionSamples :
          /\ Called("description", d)
          /\ command_builder' = Some([command_builder.v EXCEPT !.description = d])
    /\ UNCHANGED <<builder, built, coreVars, bots, roleVars, updateVars>>

\* CommandBuilder::add_option, called in the closure
AddOption ==
    /\ command_builder.some
    /\ \E o \in OptionSamples :
          /\ Called("add_option", o)
          /\ command_builder' = Some(CommandBuilder_add_option(command_builder.v, o))
    /\ UNCHANGED <<builder, built, coreVars, bots, roleVars, updateVars>>

\* CommandBuilder::add_subcommand, called in the closure; b is what its own
\* closure returns.
AddSubcommand ==
    /\ command_builder.some
    /\ \E b \in SubcommandBuilderSamples :
          /\ Called("add_subcommand", b)
          /\ command_builder' =
                Some(CommandBuilder_add_option(command_builder.v,
                        new_subcommand_option(b.name, b.description, b.options)))
    /\ UNCHANGED <<builder, built, coreVars, bots, roleVars, updateVars>>

\* CommandBuilder::add_subcommand_group, called in the closure; g is what its
\* own closure returns.
AddSubcommandGroup ==
    /\ command_builder.some
    /\ \E g \in SubcommandGroupBuilderSamples :
          /\ Called("add_subcommand_group", g)
          /\ command_builder' =
                Some(CommandBuilder_add_option(command_builder.v,
                        new_subcommand_group_option(g.name, g.description, g.subcommands)))
    /\ UNCHANGED <<builder, built, coreVars, bots, roleVars, updateVars>>

\* CommandsBuilder::add_command after its closure returned: build_chat_command
\* and push.
AddCommandReturn ==
    /\ builder.some /\ command_builder.some
    /\ builder' = Some([builder.v EXCEPT !.commands =
            Append(@, new_chat_input_command(command_builder.v.name,
                                             command_builder.v.description,
                                             command_builder.v.default_member_permissions,
                                             command_builder.v.dm_permission,
                                             None,
                                             command_builder.v.options))])
    /\ command_builder' = None
    /\ UNCHANGED <<builder_calls, built, coreVars, bots, roleVars, updateVars>>

\* CommandsBuilder::build
Build ==
    /\ builder.some /\ ~command_builder.some
    /\ built' = Some(builder.v.commands)
    /\ builder' = None
    /\ UNCHANGED <<command_builder, builder_calls, coreVars, bots, roleVars, updateVars>>

NextBuilder ==
    \/ AddCommand
    \/ Name
    \/ Description
    \/ AddOption
    \/ AddSubcommand
    \/ AddSubcommandGroup
    \/ AddCommandReturn
    \/ Build

SpecBuilder == InitBuilder /\ [][NextBuilder]_vars

\* Where the add_command calls stand in builder_calls, and the calls made in
\* the closure of the n-th of them.
AddCommandCalls == {i \in 1..Len(builder_calls) : builder_calls[i].method = "add_command"}

NthAddCommand(n) ==
    CHOOSE i \in AddCommandCalls : Cardinality({j \in AddCommandCalls : j <= i}) = n

ClosureCalls(n) ==
    SubSeq(builder_calls, NthAddCommand(n) + 1,
           IF n = Cardinality(AddCommandCalls) THEN Len(builder_calls)
           ELSE NthAddCommand(n + 1) - 1)

\* The argument of the last call of method among calls, the empty string when
\* there is none.
LastSet(calls, method) ==
    IF \A i \in 1..Len(calls) : calls[i].method /= method THEN <<>>
    ELSE calls[CHOOSE i \in 1..Len(calls) :
                 /\ calls[i].method = method
                 /\ \A j \in (i + 1)..Len(calls) : calls[j].method /= method].arg

\* The calls among calls that add an option.
OptionCalls(calls) ==
    SelectSeq(calls, LAMBDA c :
        c.method \in {"add_option", "add_subcommand", "add_subcommand_group"})

\* The option is the one the call c adds.
AddedBy(option, c) ==
    CASE c.method = "add_option" -> option = c.arg
      [] c.method = "add_subcommand" ->
            /\ option.variant = "Subcommand"
            /\ option.inner.t = 1
            /\ option.inner.name = c.arg.name
      [] c.method = "add_subcommand_group" ->
            /\ option.variant = "SubcommandGroup"
            /\ option.inner.t = 2
            /\ option.inner.name = c.arg.name
            /\ option.inner.options = c.arg.subcommands

\* C24: build returns one chat-input command for each add_command call, in
\* the order of the calls; each has the name and the description its closure
\* set last and the options its closure added, in the order it added them,
\* where add_subcommand adds a Subcommand and add_subcommand_group a
\* SubcommandGroup.
C24_BuildReturnsWhatWasAdded ==
    built.some =>
        /\ Len(built.v) = Cardinality(AddCommandCalls)
        /\ \A n \in 1..Len(built.v) :
              /\ built.v[n].variant = "ChatInputCommand"
              /\ built.v[n].inner.details.t = 1
              /\ built.v[n].inner.details.name = LastSet(ClosureCalls(n), "name")
              /\ built.v[n].inner.description = LastSet(ClosureCalls(n), "description")
              /\ IF OptionCalls(ClosureCalls(n)) = <<>>
                 THEN built.v[n].inner.options = None
                 ELSE /\ built.v[n].inner.options.some
                      /\ Len(built.v[n].inner.options.v) = Len(OptionCalls(ClosureCalls(n)))
                      /\ \A i \in 1..Len(built.v[n].inner.options.v) :
                            AddedBy(built.v[n].inner.options.v[i],
                                    OptionCalls(ClosureCalls(n))[i])

\* Two commands were built; the closure of the first set two different
\* names, and the command carries the second of them.
C24_Witness ==
    /\ built.some
    /\ Len(built.v) = 2
    /\ builder_calls[2].method = "name" /\ builder_calls[3].method = "name"
    /\ builder_calls[2].arg /= builder_calls[3].arg
    /\ built.v[1].inner.details.name = builder_calls[3].arg

(***************************************************************************)
(* The REST client (api/src/lib.rs, api/src/application_commands.rs).      *)
(* What Discord and the network do with a request is its outcome: the      *)
(* transport fails (the server may have applied the request or not), or a  *)
(* status comes back with a body that can be read or not.                  *)
(***************************************************************************)
\* DiscordClient::new: the token must make a header value.
DiscordClient_new(tok, application_id) ==
    IF tok THEN Ok([application_id |-> application_id]) ELSE Err("HeaderError")

\* DiscordClient::put reporting 401 like every other unexpected status.
put_unauthorized_as_unknown(url, body, outcome) ==
    IF outcome.kind = "transport" THEN Err("RequestError")
    ELSE IF outcome.status \in {200, 201}
         THEN IF outcome.body_ok THEN Ok(body) ELSE Err("RequestError")
    ELSE IF outcome.body_ok THEN Err("UnknownResponse") ELSE Err("RequestError")

\* DiscordClient::put.  Discord answers an accepted overwrite with the
\* commands it now holds, which are those of the body.
put(url, body, outcome) ==
    IF outcome.kind = "transport" THEN Err("RequestError")
    ELSE IF outcome.status = 401 THEN Err("Unauthorized")
    ELSE IF outcome.status \in {200, 201}
         THEN IF outcome.body_ok THEN Ok(body) ELSE Err("RequestError")
    ELSE IF outcome.body_ok THEN Err("UnknownResponse") ELSE Err("RequestError")

\* format!("{DISCORD_API}/applications/{}/commands", self.application_id)
global_commands_url(client) == [application_id |-> client.application_id, guild |-> None]

\* format!("{DISCORD_API}/applications/{}/guilds/{}/commands", ...)
guild_commands_url(client, guild_id) ==
    [application_id |-> client.application_id, guild |-> Some(guild_id)]

\* The url update_commands overwrites for the group of guild_id:
\* overwrite_guild_commands(&snowflake.to_string(), ..) or
\* overwrite_global_commands(..).
overwrite_url(client, guild_id) ==
    IF guild_id.some
    THEN guild_commands_url(client, Snowflake_to_string(guild_id.v, TRUE).v)
    ELSE global_commands_url(client)

\* The first loop of update_commands with every command starting a group of
\* its own, replacing the one of its guild_id.
RECURSIVE group_commands_replacing(_, _)
group_commands_replacing(cs, gs) ==
    IF cs = <<>> THEN gs
    ELSE group_commands_replacing(Tail(cs), (Head(cs).guild_id :> <<Head(cs)>>) @@ gs)

\* The first loop of update_commands: cs are the commands still to go, gs the
\* HashMap groups, a function from guild_id to the commands of the group.
RECURSIVE group_commands(_, _)
group_commands(cs, gs) ==
    IF cs = <<>> THEN gs
    ELSE group_commands(Tail(cs),
            IF Head(cs).guild_id \in DOMAIN gs
            THEN [gs EXCEPT ![Head(cs).guild_id] = Append(@, Head(cs))]
            ELSE (Head(cs).guild_id :> <<Head(cs)>>) @@ gs)

\* Most commands handed to update_commands.
MaxCommands == 3

S_APPLICATION_ID == <<"4", "2">>

\* No guild, and two guilds.
GuildIdSamples == {None, Some(from_u64(U64Of(1))), Some(from_u64(U64Of(2)))}

\* The i-th command is named i.
CommandsSamples ==
    UNION { { [i \in 1..n |-> [name |-> <<Digits[i + 1]>>, guild_id |-> g[i]]] :
              g \in [1..n -> GuildIdSamples] } : n \in 0..MaxCommands }

OutcomeSamples ==
    {[kind |-> "transport", applied |-> a] : a \in BOOLEAN}
    \cup {[kind |-> "status", status |-> s, body_ok |-> b] :
            s \in {200, 201, 400, 500}, b \in BOOLEAN}
    \cup {[kind |-> "status", status |-> 401, body_ok |-> TRUE]}

\* The server applies an overwrite it answers with 200 or 201, and may have
\* applied one whose answer was lost.
Applied(outcome) ==
    IF outcome.kind = "transport" THEN outcome.applied ELSE outcome.status \in {200, 201}

InitUpdate ==
    /\ token \in BOOLEAN
    /\ commands \in CommandsSamples
    /\ groups = None
    /\ requests = <<>>
    /\ server = <<>>
    /\ updated_commands = <<>>
    /\ update_result = None
    /\ SnowflakeIdle /\ DecodeIdle /\ EncodeIdle /\ BotIdle
    /\ ConcurrentIdle /\ RoleIdle /\ BuilderIdle

\* update_commands up to its second loop: the client, then the groups.
UpdateCommandsGroup ==
    /\ ~update_result.some /\ ~groups.some
    /\ IF DiscordClient_new(token, S_APPLICATION_ID).ok
       THEN groups' = Some(group_commands(commands, <<>>)) /\ UNCHANGED update_result
       ELSE update_result' = Some(DiscordClient_new(token, S_APPLICATION_ID))
            /\ UNCHANGED groups
    /\ UNCHANGED <<token, commands, requests, server, updated_commands>>
    /\ UNCHANGED <<coreVars, bots, roleVars, builderVars>>

\* One round of the second loop: the HashMap yields a group not yet seen, in
\* no order one can rely on; its commands are put to its url; an error
\* leaves update_commands through `?`.
UpdateCommandsOverwrite ==
    /\ ~update_result.some /\ groups.some
    /\ \E guild_id \in DOMAIN groups.v, outcome \in OutcomeSamples :
          /\ requests' = Append(requests,
                [url |-> overwrite_url(DiscordClient_new(token, S_APPLICATION_ID).v, guild_id),
                 body |-> groups.v[guild_id], outcome |-> outcome])
          /\ server' = IF Applied(outcome)
                       THEN (requests'[Len(requests')].url :> groups.v[guild_id]) @@ server
                       ELSE server
          /\ IF put(requests'[Len(requests')].url, groups.v[guild_id], outcome).ok
             THEN /\ updated_commands' = updated_commands \o groups.v[guild_id]
                  /\ groups' = Some([k \in DOMAIN groups.v \ {guild_id} |-> groups.v[k]])
                  /\ UNCHANGED update_result
             ELSE /\ update_result' =
                        Some(put(requests'[Len(requests')].url, groups.v[guild_id], outcome))
                  /\ UNCHANGED <<groups, updated_commands>>
    /\ UNCHANGED <<token, commands>>
    /\ UNCHANGED <<coreVars, bots, roleVars, builderVars>>

\* Ok(updated_commands) after the last group.
UpdateCommandsReturn ==
    /\ ~update_result.some /\ groups.some
    /\ DOMAIN groups.v = {}
    /\ update_result' = Some(Ok(updated_commands))
    /\ UNCHANGED <<token, commands, groups, requests, server, updated_commands>>
    /\ UNCHANGED <<coreVars, bots, roleVars, builderVars>>

NextUpdate ==
    \/ UpdateCommandsGroup
    \/ UpdateCommandsOverwrite
    \/ UpdateCommandsReturn

SpecUpdate == InitUpdate /\ [][NextUpdate]_vars

\* The guild_ids of the input, and the input commands of one of them in
\* input order.
GuildIdsPresent == {commands[i].guild_id : i \in 1..Len(commands)}
CommandsOf(guild_id) == SelectSeq(commands, LAMBDA c : c.guild_id = guild_id)

\* The endpoint of a guild_id: the global one, or the guild's, named by the
\* decimal digits of its id.
EndpointOf(guild_id) ==
    [ application_id |-> S_APPLICATION_ID,
      guild |-> IF guild_id.some THEN Some(u64_to_string(to_u64(guild_id.v))) ELSE None ]

\* C29: every overwrite request goes to the endpoint of a guild_id present in
\* the input (the global endpoint for no guild_id) and carries exactly the
\* input commands of that guild_id in input order; no endpoint gets two
\* requests; and when update_commands returns Ok, every guild_id present got
\* its request, so that every command was sent exactly once, and none was
\* sent for an empty input.
C29_OneOverwritePerGuild ==
    /\ \A i \in 1..Len(requests) :
          /\ \E g \in GuildIdsPresent :
                /\ requests[i].url = EndpointOf(g)
                /\ requests[i].body = CommandsOf(g)
          /\ \A j \in 1..Len(requests) : requests[j].url = requests[i].url => j = i
    /\ (update_result.some /\ update_result.v.ok) =>
          /\ Len(requests) = Cardinality(GuildIdsPresent)
          /\ \A c \in 1..Len(commands) :
                Cardinality({i \in 1..Len(requests) :
                               \E k \in 1..Len(requests[i].body) :
                                   requests[i].body[k] = commands[c]}) = 1

\* Three commands, the first and the third global and the second of a guild,
\* were sent in two requests, and update_commands returned Ok.
C29_Witness ==
    /\ update_result.some /\ update_result.v.ok
    /\ Len(commands) = 3
    /\ ~commands[1].guild_id.some /\ commands[2].guild_id.some /\ ~commands[3].guild_id.some
    /\ Len(requests) = 2
    /\ \E i \in 1..2 : requests[i].body = <<commands[1], commands[3]>>

\* What update_commands returns for a request with this outcome.
ErrorOf(outcome) ==
    CASE outcome.kind = "transport" -> Err("RequestError")
      [] outcome.kind = "status" /\ outcome.status = 401 -> Err("Unauthorized")
      [] outcome.kind = "status" /\ outcome.status /= 401 /\ outcome.body_ok ->
            Err("UnknownResponse")
      [] OTHER -> Err("RequestError")

\* The request was answered with 200 or 201 and a body that could be read.
Succeeded(request) ==
    /\ request.outcome.kind = "status"
    /\ request.outcome.status \in {200, 201}
    /\ request.outcome.body_ok

\* C30: when an overwrite request fails, update_commands returns its error
\* (Unauthorized for 401, UnknownResponse for another status that is not 200
\* or 201, RequestError when the transport or the reading of the answer
\* fails) without sending another request: the failed request is the last
\* one, the groups not yet processed got none, the groups overwritten before
\* are what the server holds for their endpoints, and no commands are
\* returned.
C30_FirstFailureEndsRun ==
    /\ \A i \in 1..Len(requests) :
          ~Succeeded(requests[i]) =>
              /\ i = Len(requests)
              /\ update_result = Some(ErrorOf(requests[i].outcome))
              /\ \A g \in DOMAIN groups.v :
                    EndpointOf(g) /= requests[i].url =>
                        \A j \in 1..Len(requests) : requests[j].url /= EndpointOf(g)
              /\ \A j \in 1..(i - 1) : server[requests[j].url] = requests[j].body
    /\ (update_result.some /\ ~update_result.v.ok /\ requests /= <<>>) =>
          ~Succeeded(requests[Len(requests)])

\* The first of two groups was overwritten, the request of the second was
\* answered with 401, and update_commands returned Unauthorized with the
\* first group still on the server.
C30_Witness ==
    /\ update_result = Some(Err("Unauthorized"))
    /\ Len(requests) = 2
    /\ Succeeded(requests[1])
    /\ requests[2].outcome.status = 401
    /\ server[requests[1].url] = requests[1].body
    /\ Cardinality(DOMAIN groups.v) = 1

(***************************************************************************)
(* Two requests in flight.  Each has a CloudflareInteractionBot of its     *)
(* own, which process(mut self) consumes; the record of a bot holds its    *)
(* fields, the locals of its process() and where that stands.              *)
(***************************************************************************)
\* CloudflareInteractionBot::new(req, env), with_handler(h) when h is Some.
\* The handler returns h.v.returns.
NewBot(r, e, h) ==
    [ req |-> r, env |-> e, handler |-> h, pc |-> "new", bytes |-> None,
      validation |-> None, interaction |-> None, interaction_response |-> None,
      result |-> None, handler_calls |-> <<>> ]

\* One step of process() that takes the body from a buffer all requests share,
\* which the first of them filled.
process_step_shared_buffer(b) ==
    LET Validated(v) ==
            [b EXCEPT !.validation = Some(v),
                      !.pc = IF v.ok THEN "decode" ELSE "done",
                      !.result = IF v.ok THEN @
                                 ELSE Some(IF v.panic THEN v
                                           ELSE IF v.err = "ValidationError"
                                                THEN Response_error("Validation failed", 401)
                                           ELSE IF v.err = "WorkerError" THEN Err("WorkerError")
                                           ELSE Response_error("Unknown error", 500))]
        Decoded(i) ==
            [b EXCEPT !.interaction = Some(i),
                      !.pc = IF i.ok THEN "dispatch" ELSE "done",
                      !.result = IF i.ok THEN @
                                 ELSE Some(IF i.panic THEN i ELSE Err("SerdeJsonError"))]
        Dispatched(d) ==
            CASE d.kind = "ready" ->
                    [b EXCEPT !.interaction_response = Some(d.value), !.pc = "respond"]
              [] d.kind = "call" ->
                    [b EXCEPT !.handler_calls = Append(@, d.method), !.pc = "await"]
              [] d.kind = "panic" ->
                    [b EXCEPT !.result = Some(Panic("not yet implemented")), !.pc = "done"]
    IN  CASE b.pc = "new" ->
                IF b.req.body_used
                THEN [b EXCEPT !.result = Some(Err("BodyUsed")), !.pc = "done"]
                ELSE [b EXCEPT !.bytes = Some(bots[1].req.body), !.pc = "validate"]
          [] b.pc = "validate" -> Validated(validate_request(b.env, b.req.headers, b.bytes.v))
          [] b.pc = "decode" -> Decoded(from_slice(b.bytes.v))
          [] b.pc = "dispatch" -> Dispatched(dispatch(b.interaction.v.v, b.handler))
          [] b.pc = "await" ->
                [b EXCEPT !.interaction_response = Some(b.handler.v.returns),
                          !.pc = "respond"]
          [] b.pc = "respond" ->
                [b EXCEPT !.result = Some(IF b.interaction_response.v.ok
                                          THEN Response_from_json(b.interaction_response.v.v)
                                          ELSE Response_error("Unknown error", 400)),
                          !.pc = "done"]
          [] OTHER -> b

\* One step of process() on the bot b: the step of ProcessBytes,
\* ProcessValidate, ProcessDecode, ProcessDispatch, the return of the handler,
\* or ProcessRespond, by where b stands.
process_step(b) ==
    LET Validated(v) ==
            [b EXCEPT !.validation = Some(v),
                      !.pc = IF v.ok THEN "decode" ELSE "done",
                      !.result = IF v.ok THEN @
                                 ELSE Some(IF v.panic THEN v
                                           ELSE IF v.err = "ValidationError"
                                                THEN Response_error("Validation failed", 401)
                                           ELSE IF v.err = "WorkerError" THEN Err("WorkerError")
                                           ELSE Response_error("Unknown error", 500))]
        Decoded(i) ==
            [b EXCEPT !.interaction = Some(i),
                      !.pc = IF i.ok THEN "dispatch" ELSE "done",
                      !.result = IF i.ok THEN @
                                 ELSE Some(IF i.panic THEN i ELSE Err("SerdeJsonError"))]
        Dispatched(d) ==
            CASE d.kind = "ready" ->
                    [b EXCEPT !.interaction_response = Some(d.value), !.pc = "respond"]
              [] d.kind = "call" ->
                    [b EXCEPT !.handler_calls = Append(@, d.method), !.pc = "await"]
              [] d.kind = "panic" ->
                    [b EXCEPT !.result = Some(Panic("not yet implemented")), !.pc = "done"]
    IN  CASE b.pc = "new" ->
                IF b.req.body_used
                THEN [b EXCEPT !.result = Some(Err("BodyUsed")), !.pc = "done"]
                ELSE [b EXCEPT !.bytes = Some(b.req.body), !.pc = "validate"]
          [] b.pc = "validate" -> Validated(validate_request(b.env, b.req.headers, b.bytes.v))
          [] b.pc = "decode" -> Decoded(from_slice(b.bytes.v))
          [] b.pc = "dispatch" -> Dispatched(dispatch(b.interaction.v.v, b.handler))
          [] b.pc = "await" ->
                [b EXCEPT !.interaction_response = Some(b.handler.v.returns),
                          !.pc = "respond"]
          [] b.pc = "respond" ->
                [b EXCEPT !.result = Some(IF b.interaction_response.v.ok
                                          THEN Response_from_json(b.interaction_response.v.v)
                                          ELSE Response_error("Unknown error", 400)),
                          !.pc = "done"]
          [] OTHER -> b

\* Requests of one timestamp: a Ping, a command, an autocomplete and the
\* document null, signed by Discord or by somebody else.
ConcurrentRequests ==
    { [ headers |-> [ signature |-> Some(hex_encode(Sign(k, as_bytes(S_TIMESTAMP) \o to_vec(d)))),
                      timestamp |-> Some(S_TIMESTAMP) ],
        body |-> to_vec(d), body_used |-> FALSE ] :
        k \in KeyPairs,
        d \in {JObject(With(BaseDoc, "type", Some(JPosInt(n)))) : n \in {1, 2, 4}} \cup {JNull} }

\* No handler, one that answers, one that fails.
ConcurrentHandlers ==
    {None, Some([returns |-> Ok([variant |-> "DeferredUpdateMessage"])]),
     Some([returns |-> Err("handler error")])}

InitConcurrent ==
    /\ bots \in [1..2 -> { NewBot(r, [secret |-> Ok(hex_encode(Bytes(PUBLIC_KEY_LENGTH, "discord")))], h) :
                             r \in ConcurrentRequests, h \in ConcurrentHandlers }]
    /\ SnowflakeIdle /\ DecodeIdle /\ EncodeIdle /\ BotIdle
    /\ RoleIdle /\ BuilderIdle /\ UpdateIdle

\* The process() of one of the requests takes its next step.
Process ==
    /\ \E i \in DOMAIN bots :
          /\ bots[i].pc /= "done"
          /\ bots' = [bots EXCEPT ![i] = process_step(bots[i])]
    /\ UNCHANGED <<coreVars, roleVars, builderVars, updateVars>>

SpecConcurrent == InitConcurrent /\ [][Process]_vars

\* What process() returns for a request handled with no other request
\* around: the result of the pipeline on the request r, the bindings e and the
\* handler h.
ResultAlone(r, e, h) ==
    LET Respond(ir) ==
            IF ir.ok THEN Response_from_json(ir.v) ELSE Response_error("Unknown error", 400)
        AfterDispatch(d) ==
            CASE d.kind = "ready" -> Respond(d.value)
              [] d.kind = "call" -> Respond(h.v.returns)
              [] d.kind = "panic" -> Panic("not yet implemented")
        AfterDecode(i) ==
            IF i.ok THEN AfterDispatch(dispatch(i.v, h))
            ELSE IF i.panic THEN i ELSE Err("SerdeJsonError")
        AfterValidate(v) ==
            IF v.ok THEN AfterDecode(from_slice(r.body))
            ELSE IF v.panic THEN v
            ELSE IF v.err = "ValidationError" THEN Response_error("Validation failed", 401)
            ELSE IF v.err = "WorkerError" THEN Err("WorkerError")
            ELSE Response_error("Unknown error", 500)
    IN  IF r.body_used THEN Err("BodyUsed")
        ELSE AfterValidate(validate_request(e, r.headers, r.body))

\* C23: however the steps of two requests interleave, every local a process()
\* has written comes from its own request, public key and handler alone (the
\* bytes are its body, the validation that of its headers and body, the
\* interaction the decoding of its body, the handler's answer that of its
\* handler), and a request that is done has the result it gets when handled
\* alone.
C23_RequestsIndependent ==
    \A i \in DOMAIN bots :
        /\ bots[i].bytes.some => bots[i].bytes.v = bots[i].req.body
        /\ bots[i].validation.some =>
              bots[i].validation.v =
                  validate_request(bots[i].env, bots[i].req.headers, bots[i].req.body)
        /\ bots[i].interaction.some => bots[i].interaction.v = from_slice(bots[i].req.body)
        /\ bots[i].handler_calls /= <<>> => bots[i].handler.some
        /\ (bots[i].handler_calls /= <<>> /\ bots[i].interaction_response.some) =>
              bots[i].interaction_response.v = bots[i].handler.v.returns
        /\ bots[i].pc = "done" =>
              bots[i].result =
                  Some(ResultAlone(bots[i].req, bots[i].env, bots[i].handler))

\* Two different requests are both done: the first was refused and the
\* second answered through its handler.
C23_Witness ==
    /\ DOMAIN bots = 1..2
    /\ bots[1].pc = "done" /\ bots[2].pc = "done"
    /\ bots[1].req /= bots[2].req
    /\ bots[1].result.v.ok /\ bots[1].result.v.v.status = 401
    /\ bots[2].handler_calls = <<"command">>
    /\ bots[2].result.v.ok /\ bots[2].result.v.v.status = 200

====
